---- MODULE Spec2Model ----
(***************************************************************************)
(* A model of the crawl-and-download pipeline of ulisone/webcrawler:       *)
(*   - FileDownloader.download_files / download_file (file_downloader.py), *)
(*     the asyncio coroutines interleaving at their await points;          *)
(*   - LinkDetector.find_file_links (link_detector.py), the depth-bounded  *)
(*     traversal over a site whose pages are served by the environment.    *)
(* Spec   is the downloader, SpecLD the link detector.                     *)
(***************************************************************************)
EXTENDS Integers, Sequences, FiniteSets, TLC

\* ------------------------------------------------------------------ bounds
MaxLoad == 2          \* most attempts of a run: URLs x (retry_count + 1)
MaxConcurrent == 2    \* largest max_concurrent tried
MaxBody == 1          \* longest response body, in chunks
MaxDepth == 2         \* largest max_depth tried
MaxLinks == 2         \* most links a served page holds
MaxSeeds == 2         \* most seed URLs of a crawler run
MaxFixedLinks == 1    \* most links a page of a site fixed in advance holds
MaxOptions == 2       \* most options of a command line
MaxCalls == 2         \* most is_file_link calls on one detector
MaxRetries == 3       \* largest max_retries of an APIClient tried

\* ------------------------------------------------------- shared vocabulary
None == "None"

Url(netloc, dir, stem, ext) ==
  [netloc |-> netloc, dir |-> dir, stem |-> stem, ext |-> ext]

Max(a, b) == IF a >= b THEN a ELSE b

RECURSIVE Pow2(_)
Pow2(k) == IF k = 0 THEN 1 ELSE 2 * Pow2(k - 1)

\* ------------------------------------------------------------ FileDownloader
\* Two distinct URLs with the same basename.
FirstUrl == Url("ex.test", "a", "f", ".txt")
OtherUrl == Url("ex.test", "b", "f", ".txt")
DownloadUrls == {FirstUrl, OtherUrl}

\* The lists of at most n URLs, duplicates allowed; the two URLs differ in
\* nothing but their directory, so every list is taken to hold FirstUrl
\* everywhere but possibly at its end.
UrlLists(n) ==
  UNION { {us \in [1..k -> DownloadUrls] :
             \A j \in 1..k : (j < k \/ k = 1) => us[j] = FirstUrl} : k \in 1..n }

download_dir == "downloads"
chunk_size == 1          \* one chunk is the unit of length
NoDisposition == [present |-> FALSE]
EmptyName == [stem |-> <<>>, ext |-> ""]
EmptyPath == [dir |-> "", name |-> EmptyName]

HeadStatuses == {200, 206, 404, 0}       \* 0: get_file_info swallowed a failure
HeadFailures == {"Timeout", "ClientError"}   \* what get_file_info swallows
GetOutcomes == {"200", "206", "500", "Timeout", "ClientError"}
StreamFailures == {"Timeout", "OSError", "CallbackError"}
ChunkLens == {chunk_size}

VARIABLES
  max_concurrent,   \* self.max_concurrent
  retry_count,      \* self.retry_count
  phase,            \* "idle" | "running" | "returned": the call's position
  mode,             \* "async": download_files, "sync": download_files_sync
  urls,             \* the list download_files was called with
  semaphore,        \* free permits of asyncio.Semaphore(max_concurrent)
  co,               \* per task: the download_file coroutine's locals and
                    \* position, and the result it builds and returns
  stats,            \* self.stats
  fs,               \* the download directory: path -> file length
  completed,        \* the indices of the finished downloads
  results,          \* what download_files returned
  attempts,         \* per task: iterations of the retry loop started
  sleeps,           \* per task: the backoff sleeps, [after, secs]
  transportOnly,    \* per task: every finished attempt failed in transport
  timeoutOnly       \* per task: every finished attempt timed out

dlvars == <<max_concurrent, retry_count, phase, mode, urls, semaphore, co, stats,
            fs, completed, results, attempts, sleeps, transportOnly,
            timeoutOnly>>

\* LinkDetector.find_file_links, link_detector.py:231-233 and its arguments
VARIABLES
  crawl,            \* "idle" | "crawling" | "returned" | "raised":
                    \* find_file_links' position
  seed,             \* url
  max_depth,
  file_types,       \* None or the wanted categories
  custom_extensions,
  visited_urls,
  urls_to_visit,    \* the frontier: a list of <<url, depth>>
  all_file_links,   \* category -> list of URLs
  fetch_log,        \* the page GETs issued: <<url, depth>>, in order
  served,           \* page -> the links of the page as it was served
  site              \* page -> what the server does with a GET of the page,
                    \* for the pages whose answer is fixed in advance

ldvars == <<crawl, seed, max_depth, file_types, custom_extensions, visited_urls,
            urls_to_visit, all_file_links, fetch_log, served, site>>

\* WebCrawler.crawl_and_download and find_files_only, web_crawler.py:99-268
VARIABLES
  wc_pc,            \* "idle" | "seeds" | "download" | "metadata" | "summary" |
                    \* "returned" | "raised": the call's position
  wc_mode,          \* None | "crawl_and_download" | "find_files_only"
  config,           \* self.config
  args,             \* the call's file_types and custom_extensions
  seeds,            \* the call's urls
  seed_ix,          \* position of the loop over the seeds
  found_links,      \* the call's all_file_links: category -> list of URLs
  crawl_stats,      \* self.crawl_stats
  download_results, \* self.metadata['download_results']
  ffl_calls,        \* the find_file_links calls: [url, outcome, found]
  download_calls,   \* the URL lists download_files was invoked with
  faults,           \* the steps of the call in which an exception was raised
  metadata,         \* self.metadata: its 'config' section
  metadata_file,    \* the metadata file as last written
  first_found       \* what an earlier find_files_only call returned

wcvars == <<wc_pc, wc_mode, config, args, seeds, seed_ix, found_links,
            crawl_stats, download_results, ffl_calls, download_calls, faults,
            metadata, metadata_file, first_found>>

\* One download attempted by download_file and by _download_file_sync
\* against the same scripted server.
VARIABLES
  script,           \* what the server does to each attempt
  run_async,        \* download_file's locals, position and history
  run_sync          \* _download_file_sync's locals, position and history

eqvars == <<script, run_async, run_sync>>

\* main.py: one run of the command line program
VARIABLES
  main_pc,          \* "start" | "configured" | "running" | "exited"
  cmdline,          \* the options given on the command line: option -> value
  config_file,      \* the configuration file: whether it was named with -c,
                    \* and what is on disk
  main_config,      \* what setup_crawler_config returned
  crawler,          \* the WebCrawler constructed, if any
  exit_status       \* the exit status of the process

mnvars == <<main_pc, cmdline, config_file, main_config, crawler, exit_status>>

\* LinkDetector.is_file_link called on its own, link_detector.py:117-161
VARIABLES
  detector,         \* the LinkDetector: its extension table and the cookies
                    \* of its session
  classified        \* the calls made: [url, custom, result]

ifvars == <<detector, classified>>

\* APIClient._send_request, api/api_client.py:47-102
VARIABLES
  api_pc,           \* "idle" | "request" | "sleep" | "returned" | "raised"
  max_retries,      \* self.max_retries
  api_attempt,      \* attempt, the loop variable
  api_events,       \* the requests sent, the answers got and the sleeps, in
                    \* order: [kind, attempt, what]
  api_outcome       \* what the call returned or raised

apvars == <<api_pc, max_retries, api_attempt, api_events, api_outcome>>

vars == <<dlvars, ldvars, wcvars, eqvars, mnvars, ifvars, apvars>>

Tasks == DOMAIN urls

\* file_downloader.py:197-204
InitialResult(url) ==
  [url |-> url, success |-> FALSE, filename |-> EmptyName,
   file_path |-> EmptyPath, size |-> 0, error |-> None]

\* file_downloader.py:109-129: every unsafe character becomes "_"; no name of
\* the model reaches 200 characters, so nothing is cut.
SafeStem(part) ==
  CASE part = "f:" -> "f_"
    [] part = "f?" -> "f_"
    [] OTHER -> part

sanitize_filename(name) ==
  [stem |-> [k \in DOMAIN name.stem |-> SafeStem(name.stem[k])], ext |-> name.ext]

\* file_downloader.py:64-107
get_filename_from_url(url, content_disposition) ==
  LET basename == [stem |-> <<url.stem>>, ext |-> url.ext]
      fromUrl == IF url.stem = "" /\ url.ext = ""
                 THEN [stem |-> <<"file_", url.netloc, url.dir>>, ext |-> ""]
                 ELSE basename
  IN sanitize_filename(IF content_disposition.present
                       THEN content_disposition.name ELSE fromUrl)

PathOf(name) == [dir |-> download_dir, name |-> name]

\* file_downloader.py:229-234: the first of name, name_1, name_2, ... not on disk
RECURSIVE ProbeFree(_, _, _)
ProbeFree(name, counter, files) ==
  LET candidate == PathOf([stem |-> name.stem \o <<counter>>, ext |-> name.ext])
  IN IF candidate \in DOMAIN files
     THEN ProbeFree(name, counter + 1, files)
     ELSE candidate

\* the name as derived, without looking at the directory
PathAsNamed(name, files) == PathOf(name)

FreePath(name, files) ==
  IF PathOf(name) \in DOMAIN files THEN ProbeFree(name, 1, files) ELSE PathOf(name)


\* file_downloader.py:212, 239: f"HTTP {status}"
HttpError(status) ==
  CASE status = 0 -> "HTTP 0"
    [] status = 404 -> "HTTP 404"
    [] status = 500 -> "HTTP 500"
    [] status = 302 -> "HTTP 302"
    [] OTHER -> "HTTP"

\* file_downloader.py:211, 238: status in [200, 206]
StatusOk(status) == status \in {200, 206}

\* A semaphore that never blocks.
CanAcquireAlways == TRUE

\* file_downloader.py:308, 311: async with semaphore
CanAcquire == semaphore > 0

\* A loop over range(self.retry_count): one attempt short.
HasNextAttemptShort(attempt) == attempt + 1 < retry_count

\* file_downloader.py:206, 386: for attempt in range(self.retry_count + 1)
HasNextAttempt(attempt) == attempt + 1 < retry_count + 1

\* A backoff after every failed attempt, the last one too.
BackoffAlways(attempt) == TRUE

\* file_downloader.py:276, 447: if attempt < self.retry_count
ShouldBackoff(attempt) == attempt < retry_count

\* file_downloader.py:277, 448: 2 ** attempt
BackoffSecs(attempt) == Pow2(attempt)

\* The result recorded for task k among the <<index, result>> pairs.
ResultOf(done, k) == (CHOOSE p \in done : p[1] = k)[2]

\* A gather that hands back the results of the successful downloads only.
RECURSIVE GatherSuccessful(_, _)
GatherSuccessful(done, n) ==
  IF n = 0 THEN <<>>
  ELSE IF ResultOf(done, n).success
       THEN Append(GatherSuccessful(done, n - 1), ResultOf(done, n))
       ELSE GatherSuccessful(done, n - 1)

\* file_downloader.py:325-331: gather hands the results back in task order,
\* one for each task, whatever the order the tasks finished in.
GatherResults(done, n) == [k \in 1..n |-> ResultOf(done, k)]

\* The locals of a coroutine that is not running.
NoLocals(pc, result) ==
  [pc |-> pc, attempt |-> 0, filename |-> EmptyName, file_path |-> EmptyPath,
   downloaded_size |-> 0, result |-> result]

\* What the caller holds of the finished downloads: <<index, result>>.
Outcomes == {<<i, co[i].result>> : i \in completed}

\* An update of the failure counter that loses the updates before it.
CountFailureLost(st) == [st EXCEPT !.failed_downloads = 1]

\* file_downloader.py:280, 451: self.stats['failed_downloads'] += 1
CountFailure(st) == [st EXCEPT !.failed_downloads = @ + 1]

\* A semaphore that stays taken when its holder leaves.
StillHeld(sem) == sem

\* file_downloader.py:311: leaving `async with semaphore` releases it
Released(sem) == sem + 1

\* file_downloader.py:279-283 with 311-312 (async) and 450-453 with 365-366
\* (sync): the failure is counted, the result returned (the locals are
\* gone), the semaphore released, the result recorded by the caller.
Return(i, c, st) ==
  /\ co' = [co EXCEPT ![i] = NoLocals("done", c.result)]
  /\ stats' = IF c.result.success THEN st
              ELSE CountFailure(st)
  /\ semaphore' = IF mode = "async" THEN Released(semaphore) ELSE semaphore
  /\ completed' = completed \cup {i}

\* file_downloader.py:206: the loop goes to its next iteration, or ends.
NextAttemptOrReturn(i, c) ==
  IF HasNextAttempt(c.attempt)
  THEN /\ co' = [co EXCEPT ![i] = [c EXCEPT !.attempt = @ + 1, !.pc = "head"]]
       /\ attempts' = [attempts EXCEPT ![i] = @ + 1]
       /\ UNCHANGED <<semaphore, stats, completed>>
  ELSE /\ Return(i, c, stats)
       /\ UNCHANGED attempts

\* file_downloader.py:211-213, 238-240: record the status and `continue`:
\* the next iteration starts at once, the backoff below the try is skipped.
FailContinue(i, err, isTransport, isTimeout) ==
  /\ transportOnly' = [transportOnly EXCEPT ![i] = @ /\ isTransport]
  /\ timeoutOnly' = [timeoutOnly EXCEPT ![i] = @ /\ isTimeout]
  /\ NextAttemptOrReturn(i, [co[i] EXCEPT !.result.error = err])
  /\ UNCHANGED sleeps

\* Handlers that catch the timeout only.
CaughtTimeoutOnly(err) == err = "Timeout"

\* file_downloader.py:267-273: except asyncio.TimeoutError, except Exception:
\* every exception raised in the try block is caught.
Caught(err) == TRUE

\* file_downloader.py:267-277: an exception: record it, then sleep 2 ** attempt
\* unless this was the last attempt. An exception that no handler catches
\* leaves download_file (and the semaphore's `async with`) by raising.
FailExcept(i, err, isTransport, isTimeout) ==
  LET c == [co[i] EXCEPT !.result.error = err]
  IN /\ transportOnly' = [transportOnly EXCEPT ![i] = @ /\ isTransport]
     /\ timeoutOnly' = [timeoutOnly EXCEPT ![i] = @ /\ isTimeout]
     /\ IF ~Caught(err)
        THEN /\ co' = [co EXCEPT ![i] = NoLocals("raised", co[i].result)]
             /\ semaphore' = Released(semaphore)
             /\ UNCHANGED <<stats, completed, attempts, sleeps>>
        ELSE IF ShouldBackoff(c.attempt)
        THEN /\ co' = [co EXCEPT ![i] = [c EXCEPT !.pc = "sleep"]]
             /\ sleeps' = [sleeps EXCEPT ![i] =
                             Append(@, [after |-> c.attempt,
                                        secs |-> BackoffSecs(c.attempt)])]
             /\ UNCHANGED <<semaphore, stats, completed, attempts>>
        ELSE /\ NextAttemptOrReturn(i, c)
             /\ UNCHANGED sleeps

\* file_downloader.py:245, 423: open(file_path, 'wb') creates or truncates.
Opened(files, path) ==
  [p \in DOMAIN files \cup {path} |-> IF p = path THEN 0 ELSE files[p]]

\* file_downloader.py:247, 426: a write of len bytes at offset.
Written(files, path, offset, len) ==
  [files EXCEPT ![path] = Max(@, offset + len)]

\* The state of a FileDownloader after __init__, file_downloader.py:40-62
InitDownloader ==
  /\ max_concurrent \in 1..MaxConcurrent
  /\ retry_count \in 0..(MaxLoad - 1)
  /\ phase = "idle"
  /\ mode = None
  /\ urls = <<>>
  /\ semaphore = 0
  /\ co = <<>>
  /\ stats = [total_files |-> 0, successful_downloads |-> 0,
              failed_downloads |-> 0, total_size |-> 0]
  /\ fs = <<>>
  /\ completed = {}
  /\ results = None
  /\ attempts = <<>>
  /\ sleeps = <<>>
  /\ transportOnly = <<>>
  /\ timeoutOnly = <<>>

\* file_downloader.py:300-325 and 351-362: the call up to its first download
Begin(us, m) ==
  /\ phase = "idle"
  /\ urls' = us
  /\ mode' = m
  /\ co' = [i \in DOMAIN us |-> NoLocals("pending", InitialResult(us[i]))]
  /\ stats' = [stats EXCEPT !.total_files = Len(us)]
  /\ attempts' = [i \in DOMAIN us |-> 0]
  /\ sleeps' = [i \in DOMAIN us |-> <<>>]
  /\ transportOnly' = [i \in DOMAIN us |-> TRUE]
  /\ timeoutOnly' = [i \in DOMAIN us |-> TRUE]
  /\ semaphore' = IF m = "async" THEN max_concurrent ELSE semaphore
  /\ phase' = "running"
  /\ UNCHANGED <<max_concurrent, retry_count, fs, completed, results, ldvars, wcvars, eqvars, mnvars, ifvars, apvars>>

DownloadFilesBegin ==
  \E us \in UrlLists(MaxLoad \div (retry_count + 1)) : Begin(us, "async")

\* file_downloader.py:310-312, 197-209: the semaphore is acquired and
\* download_file runs to its first await, the HEAD request.
Acquire(i) ==
  /\ phase = "running" /\ mode = "async"
  /\ co[i].pc = "pending"
  /\ CanAcquire
  /\ semaphore' = semaphore - 1
  /\ co' = [co EXCEPT ![i].pc = "head", ![i].attempt = 0]
  /\ attempts' = [attempts EXCEPT ![i] = 1]
  /\ UNCHANGED <<max_concurrent, retry_count, phase, mode, urls, stats, fs,
                 completed, results, sleeps, transportOnly, timeoutOnly, ldvars, wcvars, eqvars, mnvars, ifvars, apvars>>

\* file_downloader.py:209-237 (get_file_info: 155-178): the HEAD answer; a
\* good status leads on to the file name, the free path and the GET request.
HeadReturns(i) ==
  /\ phase = "running" /\ mode = "async"
  /\ co[i].pc = "head"
  /\ \E status \in HeadStatuses :
       IF status = 0
       THEN \E failure \in HeadFailures :
              FailContinue(i, HttpError(0), TRUE, failure = "Timeout")
       ELSE IF ~StatusOk(status)
       THEN FailContinue(i, HttpError(status), FALSE, FALSE)
       ELSE LET name == IF co[i].filename = EmptyName
                        THEN get_filename_from_url(urls[i], NoDisposition)
                        ELSE co[i].filename
            IN /\ co' = [co EXCEPT ![i].filename = name,
                                   ![i].file_path = FreePath(name, fs),
                                   ![i].pc = "get"]
               /\ UNCHANGED <<semaphore, stats, completed, attempts,
                              sleeps, transportOnly, timeoutOnly>>
  /\ UNCHANGED <<max_concurrent, retry_count, phase, mode, urls, fs, results,
                 ldvars, wcvars, eqvars, mnvars, ifvars, apvars>>

\* file_downloader.py:237-245: the GET answer, up to opening the file.
GetReturns(i) ==
  /\ phase = "running" /\ mode = "async"
  /\ co[i].pc = "get"
  /\ \E outcome \in GetOutcomes :
       CASE outcome \in {"200", "206"} ->
              /\ co' = [co EXCEPT ![i].pc = "open", ![i].downloaded_size = 0]
              /\ UNCHANGED <<semaphore, stats, completed, attempts, sleeps,
                             transportOnly, timeoutOnly>>
         [] outcome = "500" -> FailContinue(i, HttpError(500), FALSE, FALSE)
         [] OTHER -> FailExcept(i, outcome, TRUE, outcome = "Timeout")
  /\ UNCHANGED <<max_concurrent, retry_count, phase, mode, urls, fs, results,
                 ldvars, wcvars, eqvars, mnvars, ifvars, apvars>>

\* file_downloader.py:245: aiofiles.open(file_path, 'wb'), or its failure.
OpenReturns(i) ==
  /\ phase = "running" /\ mode = "async"
  /\ co[i].pc = "open"
  /\ \/ /\ fs' = Opened(fs, co[i].file_path)
        /\ co' = [co EXCEPT ![i].pc = "write"]
        /\ UNCHANGED <<semaphore, stats, completed, attempts, sleeps,
                       transportOnly, timeoutOnly>>
     \/ /\ FailExcept(i, "OSError", FALSE, FALSE)
        /\ UNCHANGED fs
  /\ UNCHANGED <<max_concurrent, retry_count, phase, mode, urls, results, ldvars, wcvars, eqvars, mnvars, ifvars, apvars>>

\* file_downloader.py:246-251: one chunk arrives and is written at this
\* writer's own offset.
ChunkWritten(i) ==
  /\ phase = "running" /\ mode = "async"
  /\ co[i].pc = "write"
  /\ \E len \in ChunkLens :
       /\ co[i].downloaded_size + len <= MaxBody
       /\ fs' = Written(fs, co[i].file_path, co[i].downloaded_size, len)
       /\ co' = [co EXCEPT ![i].downloaded_size = @ + len]
  /\ UNCHANGED <<max_concurrent, retry_count, phase, mode, urls, semaphore,
                 stats, completed, results, attempts, sleeps, transportOnly, timeoutOnly,
                 ldvars, wcvars, eqvars, mnvars, ifvars, apvars>>

\* file_downloader.py:246-251: the body breaks off (timeout while streaming),
\* file.write fails, or the progress callback raises.
StreamFails(i) ==
  /\ phase = "running" /\ mode = "async"
  /\ co[i].pc = "write"
  /\ \E err \in StreamFailures : FailExcept(i, err, err = "Timeout", err = "Timeout")
  /\ UNCHANGED <<max_concurrent, retry_count, phase, mode, urls, fs, results,
                 ldvars, wcvars, eqvars, mnvars, ifvars, apvars>>

\* file_downloader.py:253-265: the body ended: success, break, return.
Succeed(i, c) ==
  Return(i,
         [c EXCEPT !.result.success = TRUE,
                   !.result.filename = c.file_path.name,
                   !.result.file_path = c.file_path,
                   !.result.size = c.downloaded_size],
         [stats EXCEPT !.successful_downloads = @ + 1,
                       !.total_size = @ + c.downloaded_size])

StreamEnds(i) ==
  /\ phase = "running" /\ mode = "async"
  /\ co[i].pc = "write"
  /\ Succeed(i, co[i])
  /\ UNCHANGED <<max_concurrent, retry_count, phase, mode, urls, fs, results,
                 attempts, sleeps, transportOnly, timeoutOnly, ldvars, wcvars, eqvars, mnvars, ifvars, apvars>>

\* file_downloader.py:277, 206: the backoff sleep is over, the loop goes on.
Wake(i) ==
  /\ phase = "running" /\ mode = "async"
  /\ co[i].pc = "sleep"
  /\ NextAttemptOrReturn(i, co[i])
  /\ UNCHANGED <<max_concurrent, retry_count, phase, mode, urls, fs, results,
                 sleeps, transportOnly, timeoutOnly, ldvars, wcvars, eqvars, mnvars, ifvars, apvars>>

\* file_downloader.py:329-336: every task is done, gather returns.
DownloadFilesEnd ==
  /\ phase = "running" /\ mode = "async"
  /\ \A i \in Tasks : co[i].pc = "done"
  /\ results' = GatherResults(Outcomes, Len(urls))
  /\ phase' = "returned"
  /\ UNCHANGED <<max_concurrent, retry_count, mode, urls, semaphore, co, stats,
                 fs, completed, attempts, sleeps, transportOnly, timeoutOnly, ldvars, wcvars, eqvars, mnvars, ifvars, apvars>>

\* ---------------------------------------------------- download_files_sync
DownloadFilesSyncBegin ==
  \E us \in UrlLists(MaxLoad \div (retry_count + 1)) : Begin(us, "sync")

\* file_downloader.py:364-365, 377-386: the loop calls _download_file_sync
\* for the next URL of the list.
SyncStart(i) ==
  /\ phase = "running" /\ mode = "sync"
  /\ i = Cardinality(completed) + 1
  /\ co[i].pc = "pending"
  /\ co' = [co EXCEPT ![i].pc = "head", ![i].attempt = 0]
  /\ attempts' = [attempts EXCEPT ![i] = 1]
  /\ UNCHANGED <<max_concurrent, retry_count, phase, mode, urls, semaphore,
                 stats, fs, completed, results, sleeps, transportOnly, timeoutOnly, ldvars, wcvars, eqvars, mnvars, ifvars, apvars>>

\* file_downloader.py:443-448: the except clause: record the error and sleep
\* 2 ** attempt unless this was the last attempt; then the loop goes on.
SyncFailExcept(i, c, err, isTransport, isTimeout) ==
  /\ transportOnly' = [transportOnly EXCEPT ![i] = @ /\ isTransport]
  /\ timeoutOnly' = [timeoutOnly EXCEPT ![i] = @ /\ isTimeout]
  /\ sleeps' = IF ShouldBackoff(c.attempt)
               THEN [sleeps EXCEPT ![i] =
                       Append(@, [after |-> c.attempt,
                                  secs |-> BackoffSecs(c.attempt)])]
               ELSE sleeps
  /\ NextAttemptOrReturn(i, [c EXCEPT !.result.error = err])

SyncHeadFailures == {"ConnectionError"}
SyncGetFailures == {"ReadTimeout", "500 Server Error"}

\* file_downloader.py:387-448: one iteration of the retry loop of
\* _download_file_sync, from the HEAD request to the break, the continue or
\* the end of the except clause.
SyncAttempt(i) ==
  /\ phase = "running" /\ mode = "sync"
  /\ co[i].pc = "head"
  /\ LET name == get_filename_from_url(urls[i], NoDisposition)
         path == FreePath(name, fs)
         c == [co[i] EXCEPT !.filename = name, !.file_path = path]
     IN \/ \E err \in SyncHeadFailures :       \* 389: session.head raises
             /\ SyncFailExcept(i, co[i], err, TRUE, FALSE)
             /\ UNCHANGED fs
        \/ /\ FailContinue(i, HttpError(404), FALSE, FALSE)   \* 391-393
           /\ UNCHANGED fs
        \/ \E err \in SyncGetFailures :        \* 419-420: get, raise_for_status
             /\ SyncFailExcept(i, c, err, err = "ReadTimeout", err = "ReadTimeout")
             /\ UNCHANGED fs
        \/ /\ SyncFailExcept(i, c, "OSError", FALSE, FALSE)   \* 423: open fails
           /\ UNCHANGED fs
        \/ \E n \in 0..MaxBody :                \* 424-427: the body breaks off
             /\ SyncFailExcept(i, [c EXCEPT !.downloaded_size = n * chunk_size],
                               "ReadTimeout", TRUE, TRUE)
             /\ fs' = Written(Opened(fs, path), path, 0, n * chunk_size)
        \/ \E n \in 0..MaxBody :                \* 423-441: written to the end
             /\ Succeed(i, [c EXCEPT !.downloaded_size = n * chunk_size])
             /\ fs' = Written(Opened(fs, path), path, 0, n * chunk_size)
             /\ UNCHANGED <<attempts, sleeps, transportOnly, timeoutOnly>>
  /\ UNCHANGED <<max_concurrent, retry_count, phase, mode, urls, results, ldvars, wcvars, eqvars, mnvars, ifvars, apvars>>

\* file_downloader.py:366-371: the results appended in list order are returned.
DownloadFilesSyncEnd ==
  /\ phase = "running" /\ mode = "sync"
  /\ \A i \in Tasks : co[i].pc = "done"
  /\ results' = [k \in 1..Cardinality(completed) |-> ResultOf(Outcomes, k)]
  /\ phase' = "returned"
  /\ UNCHANGED <<max_concurrent, retry_count, mode, urls, semaphore, co, stats,
                 fs, completed, attempts, sleeps, transportOnly, timeoutOnly, ldvars, wcvars, eqvars, mnvars, ifvars, apvars>>

\* No page's answer is fixed in advance: the server is free at every GET.
FreeSite == <<>>

\* find_file_links is not running.
NoTraversal ==
  /\ crawl = "idle"
  /\ seed = None
  /\ max_depth = 0
  /\ file_types = None
  /\ custom_extensions = {}
  /\ visited_urls = {}
  /\ urls_to_visit = <<>>
  /\ all_file_links = <<>>
  /\ fetch_log = <<>>
  /\ served = <<>>

\* The link detector is not running while the downloader is checked.
DetectorIdle == NoTraversal /\ site = FreeSite

\* web_crawler.py:36: the default of config['file_types']
DefaultFileTypes == <<"documents", "images", "videos", "audio", "archives">>

\* web_crawler.py:29-49: self.config after __init__, for a user configuration
\* that sets max_crawl_depth to 0 (every traversal is one page) and
\* save_metadata as given.
ConfigWith(save_metadata) ==
  [download_dir |-> download_dir, file_types |-> DefaultFileTypes,
   custom_extensions |-> {}, max_crawl_depth |-> 0,
   save_metadata |-> save_metadata]

\* web_crawler.py:68-84: a WebCrawler after __init__
WebCrawlerInit ==
  /\ wc_pc = "idle"
  /\ wc_mode = None
  /\ args = None
  /\ seeds = <<>>
  /\ seed_ix = 0
  /\ found_links = <<>>
  /\ crawl_stats = [urls_crawled |-> 0, files_found |-> 0,
                    files_downloaded |-> 0, total_download_size |-> 0,
                    errors |-> <<>>]
  /\ download_results = <<>>
  /\ ffl_calls = <<>>
  /\ download_calls = <<>>
  /\ faults = {}

\* The metadata file has not been written.
NotWritten == [written |-> FALSE]

\* No find_files_only call has returned.
NotReported == [reported |-> FALSE]

\* web_crawler.py:78-84: self.metadata holds a copy of the configuration of
\* the time of construction.
MetadataInit ==
  /\ metadata = [config |-> config]
  /\ metadata_file = NotWritten
  /\ first_found = NotReported

\* The crawler is not running while its parts are checked on their own.
CrawlerIdle == WebCrawlerInit /\ config = ConfigWith(TRUE) /\ MetadataInit

\* A download function that has not been called.
NotCalled == [pc |-> "idle"]

\* No scripted download is under way.
ScriptIdle ==
  /\ script = <<>>
  /\ run_async = NotCalled
  /\ run_sync = NotCalled

\* No crawler has been constructed by main or from a configuration file.
NoCrawler == [constructed |-> FALSE]

\* The command line program has not been started.
MainIdle ==
  /\ main_pc = "idle"
  /\ cmdline = [given |-> <<>>, run_mode |-> "download"]
  /\ config_file = [explicit |-> FALSE, disk |-> "absent"]
  /\ main_config = <<>>
  /\ crawler = NoCrawler
  /\ exit_status = <<>>

\* No LinkDetector is under study on its own.
NoDetector == [constructed |-> FALSE]

ClassifierIdle ==
  /\ detector = NoDetector
  /\ classified = <<>>

\* No request is being sent.
ApiIdle ==
  /\ api_pc = "idle"
  /\ max_retries = 0
  /\ api_attempt = 0
  /\ api_events = <<>>
  /\ api_outcome = None

Init ==
  /\ InitDownloader /\ DetectorIdle /\ CrawlerIdle /\ ScriptIdle
  /\ MainIdle /\ ClassifierIdle /\ ApiIdle

Next ==
  \/ DownloadFilesBegin
  \/ \E i \in Tasks : Acquire(i)
  \/ \E i \in Tasks : HeadReturns(i)
  \/ \E i \in Tasks : GetReturns(i)
  \/ \E i \in Tasks : OpenReturns(i)
  \/ \E i \in Tasks : ChunkWritten(i)
  \/ \E i \in Tasks : StreamFails(i)
  \/ \E i \in Tasks : StreamEnds(i)
  \/ \E i \in Tasks : Wake(i)
  \/ DownloadFilesEnd
  \/ DownloadFilesSyncBegin
  \/ \E i \in Tasks : SyncStart(i)
  \/ \E i \in Tasks : SyncAttempt(i)
  \/ DownloadFilesSyncEnd

Spec == Init /\ [][Next]_vars

\* -------------------------------------------------------------- LinkDetector
\* link_detector.py:17-26
FILE_EXTENSIONS ==
  [documents |-> {".pdf", ".doc", ".docx", ".txt", ".rtf", ".odt"},
   images |-> {".jpg", ".jpeg", ".png", ".gif", ".bmp", ".svg", ".webp"},
   videos |-> {".mp4", ".avi", ".mov", ".wmv", ".flv", ".webm", ".mkv"},
   audio |-> {".mp3", ".wav", ".flac", ".aac", ".ogg", ".wma"},
   archives |-> {".zip", ".rar", ".tar", ".gz", ".7z", ".bz2"},
   data |-> {".json", ".xml", ".csv", ".xls", ".xlsx"},
   executables |-> {".exe", ".msi", ".dmg", ".deb", ".rpm"},
   others |-> {".iso", ".torrent", ".apk"}]

\* dict order of FILE_EXTENSIONS, link_detector.py:181
AllFileTypes ==
  <<"documents", "images", "videos", "audio", "archives", "data",
    "executables", "others">>

\* link_detector.py:42-44
all_extensions == UNION {FILE_EXTENSIONS[t] : t \in DOMAIN FILE_EXTENSIONS}

\* str.lower() on the extensions of the model
Lower(ext) ==
  CASE ext = ".PDF" -> ".pdf"
    [] ext = ".XYZ" -> ".xyz"
    [] OTHER -> ext

\* The site. The seed and two more pages of its domain, a page of another
\* domain, file links on and off the domain (one in capitals), a download
\* endpoint without extension, a link with an extension of no category and a
\* text file that the server announces as text/plain.
SeedUrl == Url("ex.test", "", "index", ".html")
Page2 == Url("ex.test", "", "page2", ".html")
Page3 == Url("ex.test", "", "page3", ".html")
Foreign == Url("other.test", "", "x", ".html")
PdfA == Url("ex.test", "", "a", ".pdf")
PdfB == Url("other.test", "", "b", ".PDF")
Download == Url("ex.test", "", "dl", "")
Odd == Url("ex.test", "", "c", ".xyz")
Notes == Url("ex.test", "", "n", ".txt")

\* Every link a page of the site may hold; a served page holds at most
\* MaxLinks of them.
SiteLinks(u) ==
  CASE u = SeedUrl -> {Page2, Page3, PdfA, Foreign, Notes}
    [] u = Page2 -> {Page3, SeedUrl, PdfB, Odd}
    [] u = Page3 -> {Page2, Download, PdfA, Foreign}
    [] u = Foreign -> {Page2, PdfB}
    [] OTHER -> {PdfA}

Served(u) == {ls \in SUBSET SiteLinks(u) : Cardinality(ls) <= MaxLinks}

\* What the server answers to a HEAD request, link_detector.py:141-147
HeadProbe(u) ==
  CASE u = Download -> "attachment"
    [] u \in {PdfA, PdfB} -> "application/pdf"
    [] u = Odd -> "fails"
    [] u = Notes -> "text/plain"
    [] OTHER -> "text/html"

\* link_detector.py:148-152
file_content_types ==
  {"application/pdf", "application/zip", "application/octet-stream", "image/",
   "video/", "audio/", "application/msword", "application/vnd.ms-excel",
   "application/vnd.openxmlformats"}

\* link_detector.py:136, 202, 209: path.endswith(ext.lower())
PathEndsWith(u, ext) == u.ext # "" /\ Lower(u.ext) = Lower(ext)

\* link_detector.py:128-137: the extension test, against the custom
\* extensions if any were given, else against the detector's table
ExtensionHit(table, u, custom) ==
  LET extensions == IF custom # {} THEN custom ELSE table
  IN \E ext \in extensions : PathEndsWith(u, ext)

\* link_detector.py:139-161: the HEAD probe and the test of its headers
HeadersSayFile(u) ==
  \/ HeadProbe(u) = "attachment"
  \/ HeadProbe(u) \in file_content_types

\* A handler that lets the failure of the HEAD request through.
ProbeCaughtUnlessFails(answer) == answer # "fails"

\* link_detector.py:158-159: `except: pass` around the HEAD probe and the
\* test of its headers
ProbeCaught(answer) == TRUE

\* link_detector.py:117-161: the probe is made when no extension matched;
\* what it raises leaves is_file_link if the handler does not catch it.
ProbeEscapes(u, custom) ==
  ~ProbeCaught(HeadProbe(u)) /\ ~ExtensionHit(all_extensions, u, custom)

\* link_detector.py:117-161
is_file_link(u, custom) ==
  ExtensionHit(all_extensions, u, custom) \/ HeadersSayFile(u)

\* A domain test that lets every link through.
AnyDomain(base_url, target_url) == TRUE

\* link_detector.py:275-288
_is_same_domain(base_url, target_url) == base_url.netloc = target_url.netloc

Range(f) == {f[k] : k \in DOMAIN f}

\* The orders in which a Python set may be iterated.
Orders(S) == {o \in [1..Cardinality(S) -> S] : Range(o) = S}

\* link_detector.py:200: self.FILE_EXTENSIONS.get(file_type, [])
ExtensionsOf(t) ==
  IF t \in DOMAIN FILE_EXTENSIONS THEN FILE_EXTENSIONS[t] ELSE {}

\* link_detector.py:177-213, with the links in their iteration order
filter_file_links(links, types, custom) ==
  LET wanted == IF types = None THEN AllFileTypes ELSE types
      keys == Range(wanted) \cup (IF custom # {} THEN {"custom"} ELSE {})
      IsFile(l) == is_file_link(l, custom)
      files == SelectSeq(links, IsFile)
      InType(t) ==
        LET Hit(l) == \E ext \in ExtensionsOf(t) : PathEndsWith(l, ext)
        IN SelectSeq(files, Hit)
      InCustom ==
        LET Hit(l) == \E ext \in custom : PathEndsWith(l, ext)
        IN SelectSeq(files, Hit)
  IN [t \in keys |-> IF t = "custom" THEN InCustom ELSE InType(t)]

\* A merge that keeps only the links of the seed's domain.
MergedOnSeedDomain(all, found) ==
  LET OnDomain(l) == _is_same_domain(seed, l)
  IN [t \in DOMAIN all \cup DOMAIN found |->
        (IF t \in DOMAIN all THEN all[t] ELSE <<>>)
          \o (IF t \in DOMAIN found THEN SelectSeq(found[t], OnDomain)
              ELSE <<>>)]

\* link_detector.py:256-259
Merged(all, found) ==
  [t \in DOMAIN all \cup DOMAIN found |->
     (IF t \in DOMAIN all THEN all[t] ELSE <<>>)
       \o (IF t \in DOMAIN found THEN found[t] ELSE <<>>)]

\* A check that forgets the visited set.
SkipsTooDeepOnly(u, depth) == depth > max_depth

\* link_detector.py:238: if current_url in visited_urls or depth > max_depth
Skips(u, depth) == u \in visited_urls \/ depth > max_depth

\* An expansion that goes one level too deep.
ExpandsAtLimit(depth) == depth <= max_depth

\* link_detector.py:262: if depth < max_depth
Expands(depth) == depth < max_depth

\* An expansion that follows the first link of a page only.
EnqueuedFirstOnly(links, depth, visited) ==
  LET Follow(l) == /\ l \notin visited
                   /\ ~is_file_link(l, {})
                   /\ _is_same_domain(seed, l)
  IN IF Expands(depth) /\ SelectSeq(links, Follow) # <<>>
     THEN << <<SelectSeq(links, Follow)[1], depth + 1>> >>
     ELSE <<>>

\* link_detector.py:262-267, with the links in their iteration order;
\* visited already holds the current URL.
Enqueued(links, depth, visited) ==
  LET Follow(l) == /\ l \notin visited
                   /\ ~is_file_link(l, {})
                   /\ _is_same_domain(seed, l)
  IN IF Expands(depth)
     THEN [k \in 1..Len(SelectSeq(links, Follow)) |->
             <<SelectSeq(links, Follow)[k], depth + 1>>]
     ELSE <<>>

\* A list handed back as it is.
ListAsIs(links) == {links}

\* link_detector.py:271, web_crawler.py:166, 266: list(set(links)), in any
\* order
ListOfSet(links) == Orders(Range(links))

\* link_detector.py:270-271: list(set(...)) per category
RECURSIVE Deduped(_, _)
Deduped(all, types) ==
  IF types = {} THEN {<<>>}
  ELSE LET t == CHOOSE t \in types : TRUE
       IN {(t :> o) @@ rest : o \in ListOfSet(all[t]),
                              rest \in Deduped(all, types \ {t})}

\* The arguments find_file_links is called with; "downloads" is one of the
\* choices of the command line's --file-types (main.py:38-44).
FileTypeChoices == {None, <<"documents">>, <<"documents", "downloads">>}
CustomChoices == {{}, {".xyz"}}

\* link_detector.py:215-233: the call and its locals
BeginTraversal(url, depth, types, custom) ==
  /\ seed' = url
  /\ max_depth' = depth
  /\ file_types' = types
  /\ custom_extensions' = custom
  /\ visited_urls' = {}
  /\ urls_to_visit' = << <<url, 0>> >>
  /\ all_file_links' = <<>>
  /\ crawl' = "crawling"

\* find_file_links called on the seed of the site
FindFileLinksBegin ==
  /\ crawl = "idle"
  /\ \E depth \in 0..MaxDepth, types \in FileTypeChoices,
        custom \in CustomChoices :
       BeginTraversal(SeedUrl, depth, types, custom)
  /\ UNCHANGED <<fetch_log, served, site, dlvars,
                 wcvars, eqvars, mnvars, ifvars, apvars>>

\* link_detector.py:245 (get_page_content: 56-72): the answer to the GET of
\* a page is the one fixed in advance, if one is.
SiteAnswers(u, kind, ls) ==
  u \in DOMAIN site => site[u] = [kind |-> kind, links |-> ls]

\* A fetch that leaves the URL out of the visited set.
NotMarked(visited, u) == visited

\* link_detector.py:241: visited_urls.add(current_url)
Marked(visited, u) == visited \cup {u}

\* A pop that leaves the entry at the head of the list.
QueueKept(queue) == queue

\* link_detector.py:236: urls_to_visit.pop(0), what stays in the list
Popped(queue) == Tail(queue)

\* link_detector.py:235-239: the popped URL is visited already or too deep.
SkipUrl ==
  /\ crawl = "crawling"
  /\ urls_to_visit # <<>>
  /\ Skips(Head(urls_to_visit)[1], Head(urls_to_visit)[2])
  /\ urls_to_visit' = Popped(urls_to_visit)
  /\ UNCHANGED <<crawl, seed, max_depth, file_types, custom_extensions,
                 visited_urls, all_file_links, fetch_log, served, site, dlvars,
                 wcvars, eqvars, mnvars, ifvars, apvars>>

\* link_detector.py:235-247 (get_page_content: 56-72): the page GET fails.
VisitFails ==
  /\ crawl = "crawling"
  /\ urls_to_visit # <<>>
  /\ ~Skips(Head(urls_to_visit)[1], Head(urls_to_visit)[2])
  /\ SiteAnswers(Head(urls_to_visit)[1], "unreachable", {})
  /\ visited_urls' = Marked(visited_urls, Head(urls_to_visit)[1])
  /\ fetch_log' = Append(fetch_log, Head(urls_to_visit))
  /\ urls_to_visit' = Popped(urls_to_visit)
  /\ UNCHANGED <<crawl, seed, max_depth, file_types, custom_extensions,
                 all_file_links, served, site, dlvars,
                 wcvars, eqvars, mnvars, ifvars, apvars>>

\* link_detector.py:235-267: the page is fetched, its links are extracted,
\* filtered, merged into the result and those to follow are enqueued.
VisitPage ==
  /\ crawl = "crawling"
  /\ urls_to_visit # <<>>
  /\ LET current_url == Head(urls_to_visit)[1]
         depth == Head(urls_to_visit)[2]
         visited == Marked(visited_urls, current_url)
     IN /\ ~Skips(current_url, depth)
        /\ visited_urls' = visited
        /\ fetch_log' = Append(fetch_log, Head(urls_to_visit))
        /\ \E ls \in Served(current_url) :
             /\ SiteAnswers(current_url, "page", ls)
             /\ \A l \in ls : /\ ~ProbeEscapes(l, custom_extensions)
                              /\ ~ProbeEscapes(l, {})
             /\ served' = (current_url :> ls) @@ served
             /\ \E links \in Orders(ls) :
                  /\ all_file_links' =
                       Merged(all_file_links,
                              filter_file_links(links, file_types,
                                                custom_extensions))
                  /\ urls_to_visit' =
                       Popped(urls_to_visit) \o Enqueued(links, depth, visited)
  /\ UNCHANGED <<crawl, seed, max_depth, file_types, custom_extensions, site, dlvars,
                 wcvars, eqvars, mnvars, ifvars, apvars>>

\* link_detector.py:245-250 (extract_links_from_tags: 88-113): the page is
\* fetched and holds a link that urljoin rejects (ValueError), or
\* link_detector.py:253, 265: is_file_link lets an exception through; nothing
\* in find_file_links catches it, the call ends by raising.
VisitRaises ==
  /\ crawl = "crawling"
  /\ urls_to_visit # <<>>
  /\ ~Skips(Head(urls_to_visit)[1], Head(urls_to_visit)[2])
  /\ \/ SiteAnswers(Head(urls_to_visit)[1], "raises", {})
     \/ \E ls \in Served(Head(urls_to_visit)[1]) :
          /\ SiteAnswers(Head(urls_to_visit)[1], "page", ls)
          /\ \E l \in ls : \/ ProbeEscapes(l, custom_extensions)
                           \/ ProbeEscapes(l, {})
  /\ visited_urls' = Marked(visited_urls, Head(urls_to_visit)[1])
  /\ fetch_log' = Append(fetch_log, Head(urls_to_visit))
  /\ crawl' = "raised"
  /\ UNCHANGED <<seed, max_depth, file_types, custom_extensions, urls_to_visit,
                 all_file_links, served, site, dlvars,
                 wcvars, eqvars, mnvars, ifvars, apvars>>

\* link_detector.py:269-273: the frontier is empty: deduplicate and return.
FindFileLinksEnd ==
  /\ crawl = "crawling"
  /\ urls_to_visit = <<>>
  /\ all_file_links' \in Deduped(all_file_links, DOMAIN all_file_links)
  /\ crawl' = "returned"
  /\ UNCHANGED <<seed, max_depth, file_types, custom_extensions, visited_urls,
                 urls_to_visit, fetch_log, served, site, dlvars,
                 wcvars, eqvars, mnvars, ifvars, apvars>>

\* The downloader is not running while the link detector is checked.
DownloaderIdle ==
  /\ max_concurrent = 1
  /\ retry_count = 0
  /\ phase = "idle"
  /\ mode = None
  /\ urls = <<>>
  /\ semaphore = 0
  /\ co = <<>>
  /\ stats = [total_files |-> 0, successful_downloads |-> 0,
              failed_downloads |-> 0, total_size |-> 0]
  /\ fs = <<>>
  /\ completed = {}
  /\ results = None
  /\ attempts = <<>>
  /\ sleeps = <<>>
  /\ transportOnly = <<>>
  /\ timeoutOnly = <<>>

InitLD ==
  /\ DownloaderIdle /\ DetectorIdle /\ CrawlerIdle /\ ScriptIdle
  /\ MainIdle /\ ClassifierIdle /\ ApiIdle

NextLD ==
  \/ FindFileLinksBegin
  \/ SkipUrl
  \/ VisitFails
  \/ VisitPage
  \/ VisitRaises
  \/ FindFileLinksEnd

SpecLD == InitLD /\ [][NextLD]_vars

\* link_detector.py:215-233: find_file_links has been called on the seed
\* with the default categories and no extra extension, for each depth limit.
InitLDFair ==
  /\ DownloaderIdle /\ CrawlerIdle /\ ScriptIdle
  /\ MainIdle /\ ClassifierIdle /\ ApiIdle
  /\ crawl = "crawling"
  /\ seed = SeedUrl
  /\ max_depth \in 0..MaxDepth
  /\ file_types = None
  /\ custom_extensions = {}
  /\ visited_urls = {}
  /\ urls_to_visit = << <<SeedUrl, 0>> >>
  /\ all_file_links = <<>>
  /\ fetch_log = <<>>
  /\ served = <<>>
  /\ site = FreeSite

\* link_detector.py:235-273: the steps of the call's loop and its return
TraversalStep ==
  SkipUrl \/ VisitFails \/ VisitPage \/ VisitRaises \/ FindFileLinksEnd

\* One thread runs the loop; the GET of a page and the HEAD probe of a link
\* return or time out (timeout=30, timeout=10), so the call's next step is
\* always taken. Each step pops the list of URLs to visit or ends the call.
SpecLDFair ==
  InitLDFair /\ [][TraversalStep]_vars
    /\ WF_<<crawl, urls_to_visit>>(TraversalStep)

\* ---------------------------------------------------------------- WebCrawler
\* The seeds of a run: two pages of the site that both link to a.pdf.
SeedChoices == {SeedUrl, Page3}
SeedLists == UNION { [1..k -> SeedChoices] : k \in 1..MaxSeeds }

\* The file_types and custom_extensions a run is called with (None and the
\* empty set are both "not given", web_crawler.py:119-122).
ArgFileTypes == {None, <<"documents">>}
ArgCustom == {{}, {".pdf"}}

\* The output_dir a crawl_and_download run is called with (None: not given),
\* and what Path.mkdir(parents=True, exist_ok=True) does: the directory is
\* there afterwards, or it cannot be created and mkdir raises.
ArgOutputDir == {None, "out"}
MkdirOutcomes == {"ok", "OSError"}

\* Categories taken from the configuration whichever function runs.
ConfiguredTypes == config.file_types

\* web_crawler.py:140-141, 250-251: the arguments find_file_links gets
EffectiveTypes ==
  IF wc_mode = "find_files_only" /\ args.file_types # None
  THEN args.file_types ELSE config.file_types

EffectiveCustom ==
  IF wc_mode = "find_files_only" /\ args.custom_extensions # {}
  THEN args.custom_extensions ELSE config.custom_extensions

\* web_crawler.py:146-149, 256-259: the seed's result is merged in
MergedLinks(all, file_links) == Merged(all, file_links)

\* web_crawler.py:163-165: unique_links
AllLinks(links) == UNION {Range(links[t]) : t \in DOMAIN links}

\* A download list that strings the categories' lists together.
RECURSIVE Flattened(_, _)
Flattened(links, types) ==
  IF types = {} THEN <<>>
  ELSE LET t == CHOOSE t \in types : TRUE
       IN links[t] \o Flattened(links, types \ {t})

DownloadListsByCategory(links) == {Flattened(links, DOMAIN links)}

\* web_crawler.py:178: list(unique_links), in any order
DownloadLists(links) == Orders(AllLinks(links))

\* find_file_links has returned or raised: its locals are gone.
ResetDetector ==
  /\ crawl' = "idle"
  /\ seed' = None
  /\ max_depth' = 0
  /\ file_types' = None
  /\ custom_extensions' = {}
  /\ visited_urls' = {}
  /\ urls_to_visit' = <<>>
  /\ all_file_links' = <<>>
  /\ fetch_log' = <<>>
  /\ served' = <<>>
  /\ UNCHANGED site

\* web_crawler.py:116-131: the call: the arguments given replace the
\* configuration's values; an output_dir is created at once, and mkdir's
\* exception leaves the call.
CrawlAndDownloadCalled(us, ft, ce, od) ==
  /\ seeds' = us
  /\ args' = [file_types |-> ft, custom_extensions |-> ce, output_dir |-> od]
  /\ config' = [config EXCEPT
                  !.file_types = IF ft # None THEN ft ELSE @,
                  !.custom_extensions = IF ce # {} THEN ce ELSE @,
                  !.download_dir = IF od # None THEN od ELSE @]
  /\ wc_mode' = "crawl_and_download"
  /\ seed_ix' = 1
  /\ found_links' = <<>>
  /\ \E made \in MkdirOutcomes :
       IF od # None /\ made = "OSError"
       THEN wc_pc' = "raised" /\ faults' = faults \cup {"mkdir"}
       ELSE wc_pc' = "seeds" /\ UNCHANGED faults
  /\ UNCHANGED <<crawl_stats, download_results, ffl_calls, download_calls,
                 metadata, metadata_file, dlvars, ldvars, eqvars, mnvars,
                 ifvars, apvars>>

\* web_crawler.py:99-131: crawl_and_download is called
CrawlAndDownloadBegin ==
  /\ wc_pc = "idle"
  /\ \E us \in SeedLists, ft \in ArgFileTypes, ce \in ArgCustom,
        od \in ArgOutputDir :
       CrawlAndDownloadCalled(us, ft, ce, od)
  /\ UNCHANGED first_found

\* web_crawler.py:242-244: find_files_only is called
FindFilesOnlyBegin ==
  /\ wc_pc = "idle"
  /\ \E us \in SeedLists, ft \in ArgFileTypes, ce \in ArgCustom :
       /\ seeds' = us
       /\ args' = [file_types |-> ft, custom_extensions |-> ce,
                   output_dir |-> None]
  /\ wc_mode' = "find_files_only"
  /\ seed_ix' = 1
  /\ found_links' = <<>>
  /\ wc_pc' = "seeds"
  /\ UNCHANGED <<config, crawl_stats, download_results, ffl_calls,
                 download_calls, faults, metadata,
                 metadata_file, first_found, dlvars, ldvars, eqvars, mnvars, ifvars, apvars>>

\* web_crawler.py:133-143, 246-253: the loop calls find_file_links for the
\* next seed.
CallFindFileLinks ==
  /\ wc_pc = "seeds"
  /\ seed_ix <= Len(seeds)
  /\ crawl = "idle"
  /\ BeginTraversal(seeds[seed_ix], config.max_crawl_depth, EffectiveTypes,
                    EffectiveCustom)
  /\ ffl_calls' = Append(ffl_calls, [url |-> seeds[seed_ix],
                                     outcome |-> "running", found |-> {}])
  /\ UNCHANGED <<fetch_log, served, site, wc_pc, wc_mode, config, args, seeds,
                 seed_ix, found_links, crawl_stats, download_results,
                 download_calls, faults, metadata,
                 metadata_file, first_found, dlvars, eqvars, mnvars, ifvars, apvars>>

\* web_crawler.py:145-155, 255-259: find_file_links returned (with an empty
\* dict if the seed page could not be fetched): merge, count, go on.
FindFileLinksReturns ==
  /\ wc_pc = "seeds"
  /\ crawl = "returned"
  /\ found_links' = MergedLinks(found_links, all_file_links)
  /\ crawl_stats' = IF wc_mode = "crawl_and_download"
                    THEN [crawl_stats EXCEPT !.urls_crawled = @ + 1]
                    ELSE crawl_stats
  /\ ffl_calls' = [ffl_calls EXCEPT ![Len(ffl_calls)] =
                     [@ EXCEPT !.outcome = IF seed \in DOMAIN served
                                           THEN "ok" ELSE "unreachable",
                               !.found = AllLinks(all_file_links)]]
  /\ seed_ix' = seed_ix + 1
  /\ ResetDetector
  /\ UNCHANGED <<wc_pc, wc_mode, config, args, seeds, download_results,
                 download_calls, faults, metadata,
                 metadata_file, first_found, dlvars, eqvars, mnvars, ifvars, apvars>>

\* web_crawler.py:157-160, 261-262: find_file_links raised: the error is
\* logged (and, in crawl_and_download, recorded) and the loop goes on.
FindFileLinksRaises ==
  /\ wc_pc = "seeds"
  /\ crawl = "raised"
  /\ crawl_stats' = IF wc_mode = "crawl_and_download"
                    THEN [crawl_stats EXCEPT !.errors = Append(@, seed)]
                    ELSE crawl_stats
  /\ ffl_calls' = [ffl_calls EXCEPT ![Len(ffl_calls)].outcome = "raised"]
  /\ seed_ix' = seed_ix + 1
  /\ ResetDetector
  /\ UNCHANGED <<wc_pc, wc_mode, config, args, seeds, found_links,
                 download_results, download_calls, faults, metadata,
                 metadata_file, first_found, dlvars, eqvars, mnvars, ifvars, apvars>>

\* web_crawler.py:162-171: the loop is over: deduplicate every category.
DedupeLinks ==
  /\ wc_pc = "seeds" /\ wc_mode = "crawl_and_download"
  /\ seed_ix > Len(seeds)
  /\ found_links' \in Deduped(found_links, DOMAIN found_links)
  /\ crawl_stats' = [crawl_stats EXCEPT
                       !.files_found = Cardinality(AllLinks(found_links))]
  /\ wc_pc' = "download"
  /\ UNCHANGED <<wc_mode, config, args, seeds, seed_ix, download_results,
                 ffl_calls, download_calls, faults, metadata,
                 metadata_file, first_found, dlvars, ldvars, eqvars, mnvars, ifvars, apvars>>

\* web_crawler.py:264-268: find_files_only deduplicates and returns.
FindFilesOnlyEnd ==
  /\ wc_pc = "seeds" /\ wc_mode = "find_files_only"
  /\ seed_ix > Len(seeds)
  /\ found_links' \in Deduped(found_links, DOMAIN found_links)
  /\ wc_pc' = "returned"
  /\ UNCHANGED <<wc_mode, config, args, seeds, seed_ix, crawl_stats,
                 download_results, ffl_calls, download_calls, faults, metadata,
                 metadata_file, first_found, dlvars,
                 ldvars, eqvars, mnvars, ifvars, apvars>>

\* web_crawler.py:173-187: download_files is awaited on list(unique_links)
\* if there is any link, with the configured directory as output_dir. It
\* creates that directory first (file_downloader.py:300-302), and mkdir's
\* exception leaves download_files and crawl_and_download; otherwise it
\* returns one outcome per URL, or raises later on.
DownloadFiles ==
  /\ wc_pc = "download"
  /\ IF AllLinks(found_links) = {}
     THEN /\ wc_pc' = "metadata"
          /\ UNCHANGED <<crawl_stats, download_results, download_calls, faults>>
     ELSE \E us \in DownloadLists(found_links) :
            /\ download_calls' = Append(download_calls, us)
            /\ \/ /\ \E made \in MkdirOutcomes :
                       faults' = faults \cup {IF made = "OSError"
                                              THEN "download_dir"
                                              ELSE "download"}
                  /\ wc_pc' = "raised"
                  /\ UNCHANGED <<crawl_stats, download_results>>
               \/ \E ok \in [1..Len(us) -> BOOLEAN] :
                    LET n == Cardinality({k \in 1..Len(us) : ok[k]})
                    IN /\ download_results' =
                            [k \in 1..Len(us) |->
                               [url |-> us[k], success |-> ok[k],
                                size |-> IF ok[k] THEN 1 ELSE 0]]
                       /\ crawl_stats' = [crawl_stats EXCEPT
                                            !.files_downloaded = n,
                                            !.total_download_size = n]
                       /\ wc_pc' = "metadata"
                       /\ UNCHANGED faults
  /\ UNCHANGED <<wc_mode, config, args, seeds, seed_ix, found_links, ffl_calls,
                 metadata,
                 metadata_file, first_found, dlvars, ldvars, eqvars, mnvars, ifvars, apvars>>

\* web_crawler.py:300-306: the copy that is written, custom_extensions as a
\* list (in any order of the set).
Serializable(cfg) ==
  {[cfg EXCEPT !.custom_extensions = o] : o \in Orders(cfg.custom_extensions)}

\* web_crawler.py:301-303: the 'config' section is self.metadata['config'],
\* which nothing has assigned since __init__ (web_crawler.py:83).
ConfigSection == metadata.config

\* web_crawler.py:189-193, 290-314: _save_metadata, if configured; what goes
\* wrong in it is caught and logged there.
SaveMetadata ==
  /\ wc_pc = "metadata"
  /\ \/ /\ config.save_metadata
        /\ \E cfg \in Serializable(ConfigSection) :
             metadata_file' = [written |-> TRUE, config |-> cfg]
        /\ UNCHANGED faults
     \/ /\ ~config.save_metadata
        /\ UNCHANGED <<faults, metadata_file>>
     \/ /\ config.save_metadata
        /\ faults' = faults \cup {"metadata"}
        /\ UNCHANGED metadata_file
  /\ wc_pc' = "summary"
  /\ UNCHANGED <<wc_mode, config, args, seeds, seed_ix, found_links,
                 crawl_stats, download_results, ffl_calls, download_calls,
                 metadata, first_found, dlvars, ldvars, eqvars, mnvars,
                 ifvars, apvars>>

\* web_crawler.py:195-205, 316-345: the result is built and the summary
\* printed; print may raise.
PrintSummary ==
  /\ wc_pc = "summary"
  /\ \/ wc_pc' = "returned" /\ UNCHANGED faults
     \/ wc_pc' = "raised" /\ faults' = faults \cup {"summary"}
  /\ UNCHANGED <<wc_mode, config, args, seeds, seed_ix, found_links,
                 crawl_stats, download_results, ffl_calls, download_calls,
                 metadata,
                 metadata_file, first_found, dlvars, ldvars, eqvars, mnvars, ifvars, apvars>>

InitWC ==
  /\ DownloaderIdle /\ DetectorIdle /\ ScriptIdle
  /\ MainIdle /\ ClassifierIdle /\ ApiIdle
  /\ WebCrawlerInit
  /\ \E save_metadata \in BOOLEAN : config = ConfigWith(save_metadata)
  /\ MetadataInit

\* With max_crawl_depth = 0 the frontier of a traversal holds the seed only,
\* so no popped URL is ever skipped.
NextWC ==
  \/ CrawlAndDownloadBegin
  \/ FindFilesOnlyBegin
  \/ CallFindFileLinks
  \/ VisitFails
  \/ VisitPage
  \/ VisitRaises
  \/ FindFileLinksEnd
  \/ FindFileLinksReturns
  \/ FindFileLinksRaises
  \/ DedupeLinks
  \/ FindFilesOnlyEnd
  \/ DownloadFiles
  \/ SaveMetadata
  \/ PrintSummary

SpecWC == InitWC /\ [][NextWC]_vars

\* ------------------------- find_files_only and crawl_and_download compared
\* What a site does with the GET of a seed page, fixed for a whole run: the
\* page cannot be fetched, holds a link that urljoin rejects, or is served
\* with some of its links.
SiteChoices(u) ==
  {[kind |-> "unreachable", links |-> {}], [kind |-> "raises", links |-> {}]}
    \cup {[kind |-> "page", links |-> ls] :
            ls \in {l \in Served(u) : Cardinality(l) <= MaxFixedLinks}}

Sites == {s \in [SeedChoices -> UNION {SiteChoices(u) : u \in SeedChoices}] :
            \A u \in SeedChoices : s[u] \in SiteChoices(u)}

\* web_crawler.py:268 then 99-131: find_files_only has returned its links;
\* crawl_and_download is called on the same seeds with the same categories
\* and extensions (find_files_only has no output_dir).
CrawlAndDownloadAfterFind ==
  /\ wc_pc = "returned" /\ wc_mode = "find_files_only"
  /\ ~first_found.reported
  /\ first_found' = [reported |-> TRUE, links |-> found_links]
  /\ CrawlAndDownloadCalled(seeds, args.file_types, args.custom_extensions,
                            None)

InitFO ==
  /\ DownloaderIdle /\ NoTraversal /\ ScriptIdle
  /\ MainIdle /\ ClassifierIdle /\ ApiIdle
  /\ site \in Sites
  /\ WebCrawlerInit
  /\ config = ConfigWith(FALSE)
  /\ MetadataInit

NextFO ==
  \/ FindFilesOnlyBegin
  \/ CallFindFileLinks
  \/ VisitFails
  \/ VisitPage
  \/ VisitRaises
  \/ FindFileLinksEnd
  \/ FindFileLinksReturns
  \/ FindFileLinksRaises
  \/ FindFilesOnlyEnd
  \/ CrawlAndDownloadAfterFind
  \/ DedupeLinks
  \/ DownloadFiles
  \/ SaveMetadata
  \/ PrintSummary

SpecFO == InitFO /\ [][NextFO]_vars

\* --------------------------- download_file and _download_file_sync compared
\* What the server does to one attempt: the HEAD request fails in transport,
\* is answered 404, is answered by a redirect to the file; the GET request
\* times out, is answered 500; the body breaks off; everything works.
ServerEvents ==
  {"HeadFails", "Head404", "Redirect", "GetFails", "Get500", "StreamFails", "Ok"}

Scripts(n) == [1..n -> ServerEvents]

\* file_downloader.py:197-206, 377-386: the call, in an empty directory
StartRun ==
  [pc |-> "running", attempt |-> 0, attempts |-> 1, sleeps |-> <<>>,
   filename |-> EmptyName, fs |-> <<>>, result |-> InitialResult(FirstUrl)]

\* file_downloader.py:275-277 and 206, 447-448 and 386: the backoff sleep if
\* the failure path passes it, then the next iteration or the end of the loop
NextIteration(run, passesBackoff) ==
  LET slept == IF passesBackoff /\ ShouldBackoff(run.attempt)
               THEN [run EXCEPT !.sleeps = Append(@, BackoffSecs(run.attempt))]
               ELSE run
  IN IF HasNextAttempt(run.attempt)
     THEN [slept EXCEPT !.attempt = @ + 1, !.attempts = @ + 1]
     ELSE [slept EXCEPT !.pc = "done"]

\* file_downloader.py:253-265, 429-441: the body was written to the end
Succeeded(run, name) ==
  LET path == FreePath(name, run.fs)
  IN [run EXCEPT !.filename = name,
                 !.fs = Written(Opened(run.fs, path), path, 0, chunk_size),
                 !.result.success = TRUE,
                 !.result.filename = path.name,
                 !.result.file_path = path,
                 !.result.size = chunk_size,
                 !.pc = "done"]

\* file_downloader.py:206-277: one iteration of download_file's loop.
\* get_file_info follows redirects and turns a failure into status 0; a bad
\* status is recorded and `continue`s; exceptions pass the backoff.
AsyncIteration(run, event) ==
  LET name == IF run.filename = EmptyName
              THEN get_filename_from_url(FirstUrl, NoDisposition)
              ELSE run.filename
      named == [run EXCEPT !.filename = name]
      path == FreePath(name, run.fs)
  IN CASE event = "HeadFails" ->
            NextIteration([run EXCEPT !.result.error = HttpError(0)], FALSE)
       [] event = "Head404" ->
            NextIteration([run EXCEPT !.result.error = HttpError(404)], FALSE)
       [] event = "GetFails" ->
            NextIteration([named EXCEPT !.result.error = "Timeout"], TRUE)
       [] event = "Get500" ->
            NextIteration([named EXCEPT !.result.error = HttpError(500)], FALSE)
       [] event = "StreamFails" ->
            NextIteration([named EXCEPT !.result.error = "Timeout",
                                        !.fs = Opened(run.fs, path)], TRUE)
       [] OTHER -> Succeeded(run, name)

\* file_downloader.py:386-448: one iteration of _download_file_sync's loop.
\* session.head does not follow redirects and its failure is an exception;
\* raise_for_status turns a bad GET status into an exception; every
\* exception passes the backoff inside the except clause.
SyncIteration(run, event) ==
  LET name == get_filename_from_url(FirstUrl, NoDisposition)
      named == [run EXCEPT !.filename = name]
      path == FreePath(name, run.fs)
  IN CASE event = "HeadFails" ->
            NextIteration([run EXCEPT !.result.error = "ConnectionError"], TRUE)
       [] event = "Head404" ->
            NextIteration([run EXCEPT !.result.error = HttpError(404)], FALSE)
       [] event = "Redirect" ->
            NextIteration([run EXCEPT !.result.error = HttpError(302)], FALSE)
       [] event = "GetFails" ->
            NextIteration([named EXCEPT !.result.error = "ReadTimeout"], TRUE)
       [] event = "Get500" ->
            NextIteration([named EXCEPT !.result.error = "500 Server Error"],
                          TRUE)
       [] event = "StreamFails" ->
            NextIteration([named EXCEPT !.result.error = "ReadTimeout",
                                        !.fs = Opened(run.fs, path)], TRUE)
       [] OTHER -> Succeeded(run, name)

\* file_downloader.py:180-204
DownloadFileCalled ==
  /\ run_async.pc = "idle"
  /\ run_async' = StartRun
  /\ UNCHANGED <<script, run_sync, dlvars, ldvars, wcvars, mnvars, ifvars, apvars>>

DownloadFileIteration ==
  /\ run_async.pc = "running"
  /\ run_async' = AsyncIteration(run_async, script[run_async.attempt + 1])
  /\ UNCHANGED <<script, run_sync, dlvars, ldvars, wcvars, mnvars, ifvars, apvars>>

\* file_downloader.py:373-384
DownloadFileSyncCalled ==
  /\ run_sync.pc = "idle"
  /\ run_sync' = StartRun
  /\ UNCHANGED <<script, run_async, dlvars, ldvars, wcvars, mnvars, ifvars, apvars>>

DownloadFileSyncIteration ==
  /\ run_sync.pc = "running"
  /\ run_sync' = SyncIteration(run_sync, script[run_sync.attempt + 1])
  /\ UNCHANGED <<script, run_async, dlvars, ldvars, wcvars, mnvars, ifvars, apvars>>

\* One FileDownloader, one URL, and a server script with an entry for every
\* attempt the retry loop can make.
InitEq ==
  /\ InitDownloader /\ max_concurrent = 1
  /\ DetectorIdle /\ CrawlerIdle
  /\ MainIdle /\ ClassifierIdle /\ ApiIdle
  /\ script \in Scripts(retry_count + 1)
  /\ run_async = NotCalled
  /\ run_sync = NotCalled

NextEq ==
  \/ DownloadFileCalled
  \/ DownloadFileIteration
  \/ DownloadFileSyncCalled
  \/ DownloadFileSyncIteration

SpecEq == InitEq /\ [][NextEq]_vars

\* ------------------------------------------------- is_file_link on its own
\* link_detector.py:28-44: a LinkDetector after __init__: the table of all
\* extensions and a session without cookies
LinkDetectorInit ==
  [constructed |-> TRUE, all_extensions |-> all_extensions, cookies |-> {}]

\* The URLs that are classified, and the custom extensions given.
SiteUrls ==
  {SeedUrl, Page2, Page3, Foreign, PdfA, PdfB, Download, Odd, Notes}
CustomGiven == {{}, {".xyz"}, {".pdf"}}

\* link_detector.py:141: the cookies the answer to a HEAD request sets; the
\* session keeps them.
SetCookies(u) ==
  CASE HeadProbe(u) = "attachment" -> {"download_session"}
    [] HeadProbe(u) = "fails" -> {}
    [] OTHER -> {"visitor"}

\* A probe that also learns the extension of a URL whose headers say file.
AfterProbeLearning(d, u) ==
  [d EXCEPT !.cookies = @ \cup SetCookies(u),
            !.all_extensions = IF HeadersSayFile(u) THEN @ \cup {u.ext} ELSE @]

\* link_detector.py:140-159: what the HEAD probe leaves in the detector
AfterProbe(d, u) == [d EXCEPT !.cookies = @ \cup SetCookies(u)]

\* link_detector.py:117-161: is_file_link(u, custom) is called on the
\* detector as it is; the HEAD request is sent only if no extension matched.
IsFileLinkCalled ==
  /\ Len(classified) < MaxCalls
  /\ \E u \in SiteUrls, custom \in CustomGiven :
       /\ classified' =
            Append(classified,
                   [url |-> u, custom |-> custom,
                    result |-> \/ ExtensionHit(detector.all_extensions, u, custom)
                               \/ HeadersSayFile(u)])
       /\ detector' = IF ExtensionHit(detector.all_extensions, u, custom)
                      THEN detector
                      ELSE AfterProbe(detector, u)
  /\ UNCHANGED <<dlvars, ldvars, wcvars, eqvars, mnvars, apvars>>

InitIF ==
  /\ DownloaderIdle /\ DetectorIdle /\ CrawlerIdle /\ ScriptIdle /\ MainIdle
  /\ ApiIdle
  /\ detector = LinkDetectorInit
  /\ classified = <<>>

NextIF == IsFileLinkCalled

SpecIF == InitIF /\ [][NextIF]_vars

\* ------------------------------------------------------------------ main.py
\* main.py:52-89: the options that carry a value and have a default, with the
\* key of the configuration each one sets (main.py:140-153). Values are kept
\* as their command line text.
Options == {"output", "depth", "max_concurrent", "timeout", "delay"}

OptionDefault(o) ==
  CASE o = "output" -> "./downloads"
    [] o = "depth" -> "1"
    [] o = "max_concurrent" -> "5"
    [] o = "timeout" -> "30"
    [] o = "delay" -> "1.0"

ConfigKey(o) ==
  CASE o = "output" -> "download_dir"
    [] o = "depth" -> "max_crawl_depth"
    [] o = "max_concurrent" -> "max_concurrent_downloads"
    [] o = "timeout" -> "timeout"
    [] o = "delay" -> "delay_between_requests"

\* main.py:38-50, 103-119: the other options of setup_crawler_config
Switches == {"no_metadata", "verbose", "quiet"}
AllOptions == Options \cup Switches \cup {"file_types", "extensions"}

\* What may stand on the command line for an option: its default written
\* out, or another value.
GivenValues(o) ==
  CASE o = "output" -> {"./downloads", "out"}
    [] o = "depth" -> {"1", "3"}
    [] o = "max_concurrent" -> {"5", "8"}
    [] o = "timeout" -> {"30", "60"}
    [] o = "delay" -> {"1.0", "2.0"}
    [] o = "file_types" -> {"documents"}
    [] o = "extensions" -> {".log"}
    [] OTHER -> {"on"}

\* The command lines with at most n options.
Cmdlines(n) ==
  UNION {{f \in [S -> UNION {GivenValues(o) : o \in S}] :
            \A o \in S : f[o] \in GivenValues(o)} :
         S \in {T \in SUBSET AllOptions : Cardinality(T) <= n}}

\* main.py:17-121: parse_arguments: an option that is not given has its
\* default; --file-types and --extensions are lists, None if not given.
parse_arguments(given) ==
  [o \in AllOptions |->
     IF o \in Options
     THEN IF o \in DOMAIN given THEN given[o] ELSE OptionDefault(o)
     ELSE IF o \in Switches
     THEN IF o \in DOMAIN given THEN "True" ELSE "False"
     ELSE IF o \in DOMAIN given THEN <<given[o]>> ELSE <<None>>]

\* A configuration file that parses: one that sets every key an option sets
\* (to a value no command line of the model gives) and file_types, and one
\* that is an empty object.
FileConfig(disk) ==
  IF disk = "full"
  THEN [download_dir |-> "cfg_out", max_crawl_depth |-> "2",
        max_concurrent_downloads |-> "3", timeout |-> "10",
        delay_between_requests |-> "0.5", file_types |-> <<"archives">>]
  ELSE <<>>

DiskStates == {"absent", "invalid", "full", "empty"}

\* config[key] = value
WithKey(cfg, key, value) ==
  [k \in DOMAIN cfg \cup {key} |-> IF k = key THEN value ELSE cfg[k]]

\* main.py:140-153: an option's value replaces the file's if it is not the
\* option's default.
RECURSIVE OptionsApplied(_, _, _)
OptionsApplied(cfg, parsed, opts) ==
  IF opts = {} THEN cfg
  ELSE LET o == CHOOSE o \in opts : TRUE
           rest == OptionsApplied(cfg, parsed, opts \ {o})
       IN IF parsed[o] # OptionDefault(o)
          THEN WithKey(rest, ConfigKey(o), parsed[o])
          ELSE rest

\* main.py:155-171: file_types, save_metadata, log_level, custom_extensions
OthersApplied(cfg, parsed) ==
  LET c1 == IF parsed["file_types"] # <<None>>
            THEN WithKey(cfg, "file_types", parsed["file_types"])
            ELSE IF "file_types" \notin DOMAIN cfg
            THEN WithKey(cfg, "file_types", <<"documents", "images">>)
            ELSE cfg
      c2 == IF parsed["no_metadata"] = "True"
            THEN WithKey(c1, "save_metadata", "False") ELSE c1
      c3 == IF parsed["verbose"] = "True" THEN WithKey(c2, "log_level", "DEBUG")
            ELSE IF parsed["quiet"] = "True"
            THEN WithKey(c2, "log_level", "ERROR") ELSE c2
  IN IF parsed["extensions"] # <<None>>
     THEN WithKey(c3, "custom_extensions", parsed["extensions"])
     ELSE c3

\* main.py:126-137: the file named with -c, or config.json, is read if it
\* exists; a failure to read or parse it ends the process only if the file
\* was named with -c.
LoadFails(file) == file.disk = "invalid" /\ file.explicit

Loaded(file) ==
  IF file.disk \in {"full", "empty"} THEN FileConfig(file.disk) ELSE <<>>

\* main.py:124-173
setup_crawler_config(parsed, file) ==
  OthersApplied(OptionsApplied(Loaded(file), parsed, Options), parsed)

\* web_crawler.py:29-49: the defaults, updated with the configuration given
CrawlerDefaults ==
  [download_dir |-> "./downloads", max_crawl_depth |-> "1",
   max_concurrent_downloads |-> "5", timeout |-> "30",
   delay_between_requests |-> "1.0",
   file_types |-> <<"documents", "images", "videos", "audio", "archives">>,
   custom_extensions |-> <<>>, save_metadata |-> "True", log_level |-> "INFO"]

WebCrawlerWith(cfg) ==
  [constructed |-> TRUE, config |-> cfg @@ CrawlerDefaults]

\* How main is run: download (the default), --find-only, --sync.
RunModes == {"download", "find_only", "sync"}

\* main.py:178-181: the arguments are parsed and the configuration is set
\* up; sys.exit(1) if the file named with -c cannot be loaded.
SetupCrawlerConfig ==
  /\ main_pc = "start"
  /\ IF LoadFails(config_file)
     THEN /\ main_pc' = "exited"
          /\ exit_status' = <<1>>
          /\ UNCHANGED main_config
     ELSE /\ main_config' =
               setup_crawler_config(parse_arguments(cmdline.given), config_file)
          /\ main_pc' = "configured"
          /\ UNCHANGED exit_status
  /\ UNCHANGED <<cmdline, config_file, crawler, dlvars, ldvars, wcvars, eqvars,
                 ifvars, apvars>>

\* main.py:182 (web_crawler.py:57-63, file_downloader.py:40-41): the crawler
\* is constructed; its FileDownloader creates the download directory, and
\* mkdir's exception ends the process, nothing in main catching it.
ConstructCrawler ==
  /\ main_pc = "configured"
  /\ \E made \in MkdirOutcomes :
       IF made = "ok"
       THEN /\ crawler' = WebCrawlerWith(main_config)
            /\ main_pc' = "running"
            /\ UNCHANGED exit_status
       ELSE /\ main_pc' = "exited"
            /\ exit_status' = <<1>>
            /\ UNCHANGED crawler
  /\ UNCHANGED <<cmdline, config_file, main_config, dlvars, ldvars, wcvars,
                 eqvars, ifvars, apvars>>

\* main.py:195-254: the try block runs to its end. find_files_only returns
\* and found_links.json is written, or writing it raises; crawl_and_download
\* returns a result whose 'success' is True, or raises;
\* crawl_and_download_sync calls asyncio.run inside the running event loop,
\* which raises RuntimeError. An Exception is printed and ends the process
\* with status 1; otherwise main returns.
RunOutcomes(run_mode) ==
  CASE run_mode = "find_only" -> {<<0>>, <<1>>}
    [] run_mode = "download" -> {<<0>>, <<1>>}
    [] run_mode = "sync" -> {<<1>>}

RunCrawler ==
  /\ main_pc = "running"
  /\ exit_status' \in RunOutcomes(cmdline.run_mode)
  /\ main_pc' = "exited"
  /\ UNCHANGED <<cmdline, config_file, main_config, crawler, dlvars, ldvars,
                 wcvars, eqvars, ifvars, apvars>>

\* main.py:249-251: the KeyboardInterrupt raised in the try block is caught:
\* sys.exit(0).
InterruptHandled == {<<0>>}

\* main.py:195-261: the process is interrupted. Before the try block the
\* KeyboardInterrupt is not caught and ends the process (status 130). In the
\* try block it is raised in the code that runs and caught at 249, or the
\* event loop is interrupted while the task waits, the task is cancelled
\* (CancelledError passes both handlers) and asyncio.run raises the
\* KeyboardInterrupt (status 130).
Interrupted ==
  /\ main_pc \in {"start", "configured", "running"}
  /\ exit_status' \in IF main_pc = "running"
                      THEN InterruptHandled \cup {<<130>>}
                      ELSE {<<130>>}
  /\ main_pc' = "interrupted"
  /\ UNCHANGED <<cmdline, config_file, main_config, crawler, dlvars, ldvars,
                 wcvars, eqvars, ifvars, apvars>>

\* web_crawler.py:368-384: create_crawler_from_config_file: the file is read
\* and parsed; on any failure the error is logged and a crawler with the
\* default configuration is returned.
CreateCrawlerFromConfigFile ==
  /\ main_pc = "start"
  /\ config_file.explicit
  /\ crawler' = IF config_file.disk \in {"full", "empty"}
                THEN WebCrawlerWith(FileConfig(config_file.disk))
                ELSE WebCrawlerWith(<<>>)
  /\ main_pc' = "created"
  /\ UNCHANGED <<cmdline, config_file, main_config, exit_status, dlvars,
                 ldvars, wcvars, eqvars, ifvars, apvars>>

InitMain ==
  /\ DownloaderIdle /\ DetectorIdle /\ CrawlerIdle /\ ScriptIdle
  /\ ClassifierIdle /\ ApiIdle
  /\ main_pc = "start"
  /\ \E given \in Cmdlines(MaxOptions), run_mode \in RunModes :
       cmdline = [given |-> given, run_mode |-> run_mode]
  /\ \E explicit \in BOOLEAN, disk \in DiskStates :
       config_file = [explicit |-> explicit, disk |-> disk]
  /\ main_config = <<>>
  /\ crawler = NoCrawler
  /\ exit_status = <<>>

NextMain ==
  \/ SetupCrawlerConfig
  \/ ConstructCrawler
  \/ RunCrawler
  \/ Interrupted
  \/ CreateCrawlerFromConfigFile

SpecMain == InitMain /\ [][NextMain]_vars

\* ------------------------------------------- LinkDetector on a fixed site
\* The pages of the seed's domain, each with its answer to a GET fixed in
\* advance: unreachable (a bad status, a transport or a parse error, caught
\* in get_page_content, link_detector.py:67-72), a page that makes
\* extract_links_from_tags raise, or a page with its links.
DomainPages == {SeedUrl, Page2, Page3}

\* The links a page of a fixed site may hold: pages of the domain, a page
\* of another domain, file links by extension and by header, and a link
\* whose probe fails.
DomainLinks == {SeedUrl, Page2, Page3, Foreign, PdfA, Download, Odd}

PageAnswers(u) ==
  {[kind |-> "unreachable", links |-> {}], [kind |-> "raises", links |-> {}]}
    \cup {[kind |-> "page", links |-> ls] :
            ls \in {l \in Served(u) : l \subseteq DomainLinks}}

DomainSites ==
  {s \in [DomainPages -> UNION {PageAnswers(u) : u \in DomainPages}] :
     \A u \in DomainPages : s[u] \in PageAnswers(u)}

\* link_detector.py:215-233: find_file_links has been called on the seed of
\* one of these sites
InitLDSite ==
  /\ DownloaderIdle /\ CrawlerIdle /\ ScriptIdle
  /\ MainIdle /\ ClassifierIdle /\ ApiIdle
  /\ crawl = "crawling"
  /\ seed = SeedUrl
  /\ max_depth \in 0..MaxDepth
  /\ file_types = None
  /\ custom_extensions = {}
  /\ visited_urls = {}
  /\ urls_to_visit = << <<SeedUrl, 0>> >>
  /\ all_file_links = <<>>
  /\ fetch_log = <<>>
  /\ served = <<>>
  /\ site \in DomainSites

SpecLDSite == InitLDSite /\ [][TraversalStep]_vars

\* ----------------------------------------------------------------- APIClient
\* What session.request does, api_client.py:57-63: a response with a status
\* code, a requests.RequestException, or another exception (a body that
\* json cannot encode).
ApiStatuses == {200, 204, 304, 404, 500, 503}
ApiAnswers ==
  {[kind |-> "response", status |-> st] : st \in ApiStatuses}
    \cup {[kind |-> "RequestException", status |-> 0],
          [kind |-> "Exception", status |-> 0]}

\* api_client.py:65
IsSuccess(status) == status >= 200 /\ status < 300

\* api_client.py:78
IsClientError(status) == status >= 400 /\ status < 500

\* api_client.py:80, 87, 97: attempt == self.max_retries - 1
IsLastAttempt(attempt) == attempt = max_retries - 1

ApiEvent(kind, attempt, what) ==
  [kind |-> kind, attempt |-> attempt, what |-> what]

\* A retry that sleeps after every failed attempt, a bad status included.
SleepsAfterStatusAlways == TRUE

\* api_client.py:65-81: after a response that is neither 2xx nor 4xx and not
\* the last attempt's, the try block ends and the loop goes on at once.
SleepsAfterStatus == FALSE

\* api_client.py:53-102: the call ends
ApiEnds(pc, outcome, events) ==
  /\ api_pc' = pc
  /\ api_outcome' = outcome
  /\ api_events' = events
  /\ UNCHANGED api_attempt

\* api_client.py:90, 100 and 53: the loop goes on to the next attempt, after
\* time.sleep(2 ** attempt) if it sleeps
ApiRetries(sleeps_first, events) ==
  IF sleeps_first
  THEN /\ api_pc' = "sleep"
       /\ api_events' =
            Append(events, ApiEvent("sleep", api_attempt, Pow2(api_attempt)))
       /\ UNCHANGED <<api_attempt, api_outcome>>
  ELSE /\ api_pc' = "request"
       /\ api_attempt' = api_attempt + 1
       /\ api_events' = events
       /\ UNCHANGED api_outcome

\* api_client.py:47-53: _send_request is called; with max_retries = 0 the
\* loop has no pass and the call returns False (102).
SendRequestCalled ==
  /\ api_pc = "idle"
  /\ \E n \in 0..MaxRetries :
       /\ max_retries' = n
       /\ api_attempt' = 0
       /\ api_events' = <<>>
       /\ IF n = 0
          THEN api_pc' = "returned" /\ api_outcome' = "False"
          ELSE api_pc' = "request" /\ api_outcome' = None
  /\ UNCHANGED <<dlvars, ldvars, wcvars, eqvars, mnvars, ifvars>>

\* api_client.py:54-100: one pass of the loop, from the request to the
\* return, the raise, the sleep or the next pass
RequestAnswered ==
  /\ api_pc = "request"
  /\ \E answer \in ApiAnswers :
       LET sent == Append(api_events, ApiEvent("request", api_attempt, 0))
           events == Append(sent, ApiEvent(answer.kind, api_attempt,
                                           answer.status))
       IN CASE answer.kind = "response" /\ IsSuccess(answer.status) ->
                 ApiEnds("returned", "True", events)
            [] answer.kind = "response" /\ ~IsSuccess(answer.status)
                 /\ IsClientError(answer.status) ->
                 ApiEnds("raised", "Client error", events)
            [] answer.kind = "response" /\ ~IsSuccess(answer.status)
                 /\ ~IsClientError(answer.status) ->
                 IF IsLastAttempt(api_attempt)
                 THEN ApiEnds("raised", "Server error", events)
                 ELSE ApiRetries(SleepsAfterStatus, events)
            [] answer.kind = "RequestException" ->
                 IF IsLastAttempt(api_attempt)
                 THEN ApiEnds("raised", "API request failed after", events)
                 ELSE ApiRetries(TRUE, events)
            [] answer.kind = "Exception" ->
                 IF IsLastAttempt(api_attempt)
                 THEN ApiEnds("raised", "Unexpected error", events)
                 ELSE ApiRetries(TRUE, events)
  /\ UNCHANGED <<max_retries, dlvars, ldvars, wcvars, eqvars, mnvars, ifvars>>

\* api_client.py:90, 100 and 53: time.sleep returns, the next pass begins
BackoffSlept ==
  /\ api_pc = "sleep"
  /\ api_pc' = "request"
  /\ api_attempt' = api_attempt + 1
  /\ UNCHANGED <<max_retries, api_events, api_outcome, dlvars, ldvars, wcvars,
                 eqvars, mnvars, ifvars>>

InitAPI ==
  /\ DownloaderIdle /\ DetectorIdle /\ CrawlerIdle /\ ScriptIdle /\ MainIdle
  /\ ClassifierIdle /\ ApiIdle

NextAPI ==
  \/ SendRequestCalled
  \/ RequestAnswered
  \/ BackoffSlept

SpecAPI == InitAPI /\ [][NextAPI]_vars

\* --------------------------------------------------- FileDownloader: claims
Done(i) == co[i].pc = "done"
InFlight == {i \in Tasks : co[i].pc \in {"head", "get", "open", "write", "sleep"}}
Async == mode = "async"

\* C1: two distinct URLs with the same base filename, downloaded by one
\* download_files call, both successfully, end in files with distinct paths
\* under every interleaving (no overwrite).
C1_DistinctPaths ==
  \A i, j \in Tasks :
    ( /\ Async /\ i # j /\ urls[i] # urls[j]
      /\ Done(i) /\ Done(j)
      /\ co[i].result.success /\ co[j].result.success )
    => co[i].result.file_path # co[j].result.file_path

\* C2: at every moment of a download_files call the number of download_file
\* coroutines holding the semaphore (in HEAD, GET, open, write or backoff
\* sleep) is at most max_concurrent.
C2_AtMostMaxConcurrent ==
  Async => /\ Cardinality(InFlight) <= max_concurrent
           /\ semaphore = max_concurrent - Cardinality(InFlight)

C2_Witness ==
  /\ Async /\ phase = "running"
  /\ Cardinality(InFlight) = max_concurrent
  /\ \E i \in Tasks : co[i].pc = "pending"
  /\ \E i \in Tasks : co[i].pc = "write"

\* C3: download_files and download_files_sync return exactly one outcome per
\* input position, carrying that position's URL, whatever the mix of
\* successes and failures.
C3_OneOutcomePerInput ==
  phase = "returned" =>
    /\ Len(results) = Len(urls)
    /\ \A k \in 1..Len(urls) : results[k].url = urls[k]

C3_Witness ==
  /\ phase = "returned" /\ Async
  /\ Len(urls) = 2 /\ urls[1] = urls[2]
  /\ ~results[1].success /\ results[2].success

\* C4: with retry_count = R, a URL whose every attempt fails with a transport
\* error makes download_file perform exactly R + 1 attempts and return an
\* outcome with success = False and a non-empty error field.
C4_RetryExhaustion ==
  \A i \in Tasks :
    (Async /\ Done(i) /\ transportOnly[i] /\ ~co[i].result.success) =>
      /\ attempts[i] = retry_count + 1
      /\ co[i].result.error \notin {None, ""}

C4_Witness ==
  \E i \in Tasks :
    /\ Async /\ Done(i) /\ transportOnly[i] /\ ~co[i].result.success
    /\ retry_count >= 1
    /\ attempts[i] = retry_count + 1
    /\ co[i].result.error = "Timeout"

\* C5: every outcome with success = True has no error and a size equal to the
\* number of bytes in the file at file_path, also when the success comes on a
\* retry after failed attempts.
C5_SuccessMeansNoError ==
  \A i \in Tasks :
    (Done(i) /\ co[i].result.success) =>
      /\ co[i].result.error = None
      /\ co[i].result.size = fs[co[i].result.file_path]

\* C6: in download_file every attempt after the first is preceded by a
\* backoff sleep of 2^k seconds, k the index of the failed attempt before it,
\* whatever the kind of that failure.
C6_BackoffBeforeEveryRetry ==
  \A i \in Tasks :
    Async =>
      \A k \in 1..co[i].attempt :
        \E n \in DOMAIN sleeps[i] :
          sleeps[i][n] = [after |-> k - 1, secs |-> Pow2(k - 1)]

\* C18: after download_files the counters of stats equal what the returned
\* outcomes say: successes, failures and the bytes of the successes, under
\* every interleaving of the coroutines.
RECURSIVE SizeOfSuccesses(_, _)
SizeOfSuccesses(rs, n) ==
  IF n = 0 THEN 0
  ELSE SizeOfSuccesses(rs, n - 1) + (IF rs[n].success THEN rs[n].size ELSE 0)

C18_StatsMatchOutcomes ==
  (Async /\ phase = "returned") =>
    /\ stats.successful_downloads =
         Cardinality({k \in DOMAIN results : results[k].success})
    /\ stats.failed_downloads =
         Cardinality({k \in DOMAIN results : ~results[k].success})
    /\ stats.total_size = SizeOfSuccesses(results, Len(results))

C18_Witness ==
  /\ Async /\ phase = "returned" /\ max_concurrent >= 2
  /\ stats.successful_downloads = 2
  /\ stats.total_size = 2

\* C20: download_file never leaves by raising: a failure of the HEAD probe,
\* of opening or writing the file or of the progress callback ends, after
\* retry_count + 1 attempts, in an outcome with success = False and an error,
\* and every URL of the call gets its own outcome.
C20_NeverRaises ==
  /\ \A i \in Tasks : co[i].pc # "raised"
  /\ \A i \in Tasks :
       (Async /\ Done(i) /\ ~co[i].result.success) =>
         /\ attempts[i] = retry_count + 1
         /\ co[i].result.error # None
  /\ (Async /\ phase = "returned") =>
       \A i \in Tasks : results[i] = co[i].result

C20_Witness ==
  /\ Async /\ phase = "returned" /\ Len(urls) = 2
  /\ results[1].error \in {"OSError", "CallbackError", "HTTP 0"}
  /\ ~results[1].success
  /\ results[2].success

\* ----------------------------------------------------- LinkDetector: claims
Fetched == {fetch_log[k][1] : k \in DOMAIN fetch_log}
Frontier == {urls_to_visit[k][1] : k \in DOMAIN urls_to_visit}

\* C7: within one find_file_links traversal a page GET is issued at most
\* once per URL, even when the URL sits in the frontier more than once.
C7_FetchedAtMostOnce ==
  \A a, b \in DOMAIN fetch_log :
    a # b => fetch_log[a][1] # fetch_log[b][1]

C7_Witness ==
  \E u \in Fetched :
    /\ u \in Frontier
    /\ Cardinality({p \in DOMAIN served : u \in served[p]}) >= 2

\* C8: with max_depth = 0 find_file_links fetches only the seed URL: no link
\* found on the seed page is ever enqueued or fetched as a page.
C8_DepthZeroSeedOnly ==
  (crawl # "idle" /\ max_depth = 0) =>
    /\ Fetched \subseteq {seed}
    /\ Frontier \subseteq {seed}

C8_Witness ==
  /\ crawl = "returned" /\ max_depth = 0
  /\ Fetched = {seed}
  /\ seed \in DOMAIN served
  /\ Page2 \in served[seed]

\* C9: with max_depth = 1 find_file_links crawls only the seed page: no page
\* other than the seed is fetched.
C9_DepthOneSeedOnly ==
  (crawl # "idle" /\ max_depth = 1) => Fetched \subseteq {seed}

\* C10: every URL in the frontier other than the seed has the seed's netloc,
\* at every depth, whichever page the link was found on.
C10_FrontierOnSeedDomain ==
  \A k \in DOMAIN urls_to_visit :
    \/ urls_to_visit[k][1] = seed
    \/ urls_to_visit[k][1].netloc = seed.netloc

C10_Witness ==
  /\ \E k \in DOMAIN urls_to_visit : urls_to_visit[k][2] = 2
  /\ \E p \in DOMAIN served : p # seed /\ Foreign \in served[p]

\* C11: no link that a traversal reports in a category of its result (the
\* 'custom' bucket included) is enqueued or fetched as a page by it.
C11_ReportedNeverCrawled ==
  \A t \in DOMAIN all_file_links :
    \A k \in DOMAIN all_file_links[t] :
      /\ all_file_links[t][k] \notin Frontier
      /\ all_file_links[t][k] \notin Fetched

\* C13: is_file_link is True for every URL whose path ends with an extension
\* of the fixed table or with a caller-supplied extra extension, whatever the
\* HEAD probe answers and whether or not extra extensions are supplied.
C13_ExtensionDecides ==
  \A p \in DOMAIN served :
    \A u \in served[p] :
      (\E ext \in all_extensions \cup custom_extensions : PathEndsWith(u, ext))
        => is_file_link(u, custom_extensions)

\* C14: the keys of the FileLinkSet are among the eight categories of the
\* table and 'custom', for every file_types argument the callers can pass.
C14_KeysInEnumeration ==
  DOMAIN all_file_links \subseteq DOMAIN FILE_EXTENSIONS \cup {"custom"}

\* ------------------------------------------------------- WebCrawler: claims
NoDuplicate(links) ==
  \A a, b \in DOMAIN links : a # b => links[a] # links[b]

Deduplicated == wc_pc \in {"download", "metadata", "summary", "returned", "raised"}

\* C12: no category of a FileLinkSet holds a URL twice: neither what
\* find_file_links returns, nor what find_files_only returns, nor the
\* found_links of crawl_and_download, also when several seeds link the file.
C12_NoDuplicateInCategory ==
  /\ crawl = "returned" =>
       \A t \in DOMAIN all_file_links : NoDuplicate(all_file_links[t])
  /\ Deduplicated =>
       \A t \in DOMAIN found_links : NoDuplicate(found_links[t])

C12_Witness ==
  /\ wc_pc = "returned"
  /\ Len(ffl_calls) = 2
  /\ ffl_calls[1].url # ffl_calls[2].url
  /\ PdfA \in ffl_calls[1].found /\ PdfA \in ffl_calls[2].found
  /\ "documents" \in DOMAIN found_links
  /\ found_links["documents"] = <<PdfA>>

\* C15: find_file_links is invoked once for every seed, in input order; a
\* seed whose crawl fails leaves an error string in crawl_stats['errors'],
\* and the run goes on with the other seeds and the later steps.
C15_SeedFailureRecorded ==
  wc_mode = "crawl_and_download" =>
    /\ Len(ffl_calls) <= Len(seeds)
    /\ \A k \in DOMAIN ffl_calls : ffl_calls[k].url = seeds[k]
    /\ wc_pc # "seeds" => Len(ffl_calls) = Len(seeds)
    /\ \A k \in DOMAIN ffl_calls :
         ffl_calls[k].outcome \in {"raised", "unreachable"} =>
           \E e \in DOMAIN crawl_stats.errors :
             crawl_stats.errors[e] = seeds[k]

\* C16: one crawl_and_download run invokes download_files at most once, with
\* a list that holds every URL found in any category exactly once.
C16_OneDownloadOfTheUnion ==
  /\ Len(download_calls) <= 1
  /\ \A c \in DOMAIN download_calls :
       /\ NoDuplicate(download_calls[c])
       /\ Range(download_calls[c]) = AllLinks(found_links)

C16_Witness ==
  /\ Len(download_calls) = 1
  /\ Len(ffl_calls) = 2
  /\ PdfA \in ffl_calls[1].found /\ PdfA \in ffl_calls[2].found
  /\ {"documents", "custom"} \subseteq DOMAIN found_links
  /\ found_links["documents"] = <<PdfA>>
  /\ found_links["custom"] = <<PdfA>>
  /\ download_calls[1] = <<PdfA>>
  /\ wc_pc = "returned"

\* C17: an exception raised in the download step, in _save_metadata or in the
\* summary of crawl_and_download reaches the caller; one raised while
\* crawling a seed never does.
C17_LateFaultsPropagate ==
  /\ faults # {} => wc_pc = "raised"
  /\ wc_pc = "raised" => faults # {}

\* ------------------------------------------- sync and async variant: claims
\* The kind of failure an error string stands for.
ErrorKind(err) ==
  CASE err = None -> None
    [] err \in {"Timeout", "ReadTimeout"} -> "timeout"
    [] err \in {"HTTP 0", "ConnectionError"} -> "transport"
    [] OTHER -> "status"

Observed(run) ==
  [attempts |-> run.attempts, sleeps |-> run.sleeps,
   success |-> run.result.success, filename |-> run.result.filename,
   size |-> run.result.size, error |-> ErrorKind(run.result.error)]

\* C19: against the same URL and the same server responses and failures,
\* _download_file_sync and download_file make the same number of attempts,
\* sleep the same backoffs, choose the same filename and return the same
\* outcome.
C19_SyncMatchesAsync ==
  (run_async.pc = "done" /\ run_sync.pc = "done") =>
    Observed(run_async) = Observed(run_sync)

\* ------------------------------------------ LinkDetector: claims, continued
\* C27: classifying the same URL twice with the same extension arguments
\* gives the same boolean: is_file_link changes nothing in the detector that
\* a classification reads.
C27_ClassificationRepeats ==
  /\ \A a, b \in DOMAIN classified :
       (classified[a].url = classified[b].url
          /\ classified[a].custom = classified[b].custom)
       => classified[a].result = classified[b].result
  /\ detector.constructed => detector.all_extensions = all_extensions

C27_Witness ==
  /\ Len(classified) = 2
  /\ classified[1] = [url |-> Download, custom |-> {}, result |-> TRUE]
  /\ classified[2] = classified[1]
  /\ detector.cookies # {}

\* The categories asked of the traversal, link_detector.py:180-189
WantedKeys ==
  Range(IF file_types = None THEN AllFileTypes ELSE file_types)
    \cup (IF custom_extensions # {} THEN {"custom"} ELSE {})

\* link_detector.py:199-211: the link's path ends with an extension of t
InCategory(l, t) ==
  IF t = "custom"
  THEN \E ext \in custom_extensions : PathEndsWith(l, ext)
  ELSE \E ext \in ExtensionsOf(t) : PathEndsWith(l, ext)

\* C28: when find_file_links returns, every link of every crawled page that
\* is_file_link accepts and whose path falls in an asked category is listed
\* in that category of the result, on the seed's domain or off it; only the
\* frontier is restricted to the seed's domain.
C28_FileLinksOfAnyDomain ==
  crawl = "returned" =>
    \A p \in DOMAIN served : \A l \in served[p] : \A t \in WantedKeys :
      (is_file_link(l, custom_extensions) /\ InCategory(l, t)) =>
        /\ t \in DOMAIN all_file_links
        /\ l \in Range(all_file_links[t])

\* A file of another domain, linked from a page one level below the seed, is
\* in the returned result.
C28_Witness ==
  /\ crawl = "returned"
  /\ max_depth >= 1
  /\ Page2 \in DOMAIN served
  /\ PdfB \in served[Page2]
  /\ ~_is_same_domain(seed, PdfB)
  /\ "documents" \in DOMAIN all_file_links
  /\ PdfB \in Range(all_file_links["documents"])

\* C29: every call of find_file_links ends, for each depth limit from 0 and
\* each site of finitely many pages and links, cycles among them: the list of
\* URLs to visit is empty when the call returns, or the call has raised.
C29_TraversalTerminates ==
  (crawl = "crawling") ~>
    (crawl = "raised" \/ (crawl = "returned" /\ urls_to_visit = <<>>))

\* A traversal over two pages that link to each other has returned.
C29_Witness ==
  /\ crawl = "returned"
  /\ urls_to_visit = <<>>
  /\ max_depth = MaxDepth
  /\ {SeedUrl, Page2} \subseteq DOMAIN served
  /\ Page2 \in served[SeedUrl]
  /\ SeedUrl \in served[Page2]

\* -------------------------------------- FileDownloader: claims, continued
\* C26: a URL whose every attempt times out, at the HEAD probe or at the GET,
\* ends with success = False and an error that says timeout, while the other
\* URLs of the call succeed and stats['total_size'] is the sum of their
\* sizes.
C26_TimeoutIsReported ==
  /\ \A i \in Tasks :
       (Async /\ Done(i) /\ timeoutOnly[i] /\ ~co[i].result.success) =>
         co[i].result.error = "Timeout"
  /\ (Async /\ phase = "returned") =>
       stats.total_size = SizeOfSuccesses(results, Len(results))

\* ------------------------------------------- WebCrawler: claims, continued
\* C21: when the output directory cannot be created, crawl_and_download and
\* the download_files it awaits do not raise: the run goes on and the failure
\* shows as failed outcomes in the download results it returns.
C21_MkdirFailureSurfaced ==
  (faults \cap {"mkdir", "download_dir"} # {}) =>
    /\ wc_pc # "raised"
    /\ \E k \in DOMAIN download_results : ~download_results[k].success

\* The same FileLinkSet: the same categories, each with the same set of URLs.
SameLinkSet(a, b) ==
  /\ DOMAIN a = DOMAIN b
  /\ \A t \in DOMAIN a : Range(a[t]) = Range(b[t])

\* C22: find_files_only never invokes the FileDownloader and leaves its
\* statistics and the download directory as they were; for the same seeds,
\* categories, extra extensions and site content it returns the FileLinkSet
\* that crawl_and_download then reports as found_links.
C22_FindOnlyMatchesCrawl ==
  /\ wc_mode = "find_files_only" =>
       /\ download_calls = <<>> /\ download_results = <<>>
       /\ config.download_dir = download_dir
       /\ crawl_stats.files_downloaded = 0
       /\ stats.total_files = 0 /\ fs = <<>>
  /\ (wc_mode = "crawl_and_download" /\ first_found.reported
        /\ wc_pc = "returned") =>
       SameLinkSet(first_found.links, found_links)

C22_Witness ==
  /\ wc_mode = "crawl_and_download" /\ first_found.reported
  /\ wc_pc = "returned"
  /\ <<"documents">> = args.file_types /\ args.custom_extensions = {".pdf"}
  /\ Len(seeds) = 2 /\ Len(ffl_calls) = 4
  /\ found_links = [documents |-> <<PdfA>>, custom |-> <<PdfA>>]
  /\ download_calls = << <<PdfA>> >>

\* C24: the 'config' section of the metadata file a crawl_and_download run
\* writes is the configuration the run used, with the file_types,
\* custom_extensions and output_dir the call was given, custom_extensions as
\* a list.
C24_MetadataConfigIsEffective ==
  metadata_file.written => metadata_file.config \in Serializable(config)

\* ------------------------------------------------------------ main: claims
\* C23: a run started from main that is interrupted (KeyboardInterrupt) ends
\* with a non-zero exit status.
C23_InterruptExitsNonZero ==
  main_pc = "interrupted" => exit_status # <<0>>

\* C25: a configuration file that cannot be parsed is fatal at startup: no
\* crawler is constructed from it or in spite of it, by main or by
\* create_crawler_from_config_file.
C25_InvalidConfigIsFatal ==
  config_file.disk = "invalid" => ~crawler.constructed

\* The configuration setup_crawler_config has returned, as the crawler will
\* use it, and the one the file alone would give.
Configured == DOMAIN main_config # {}
EffectiveConfig == main_config @@ CrawlerDefaults
FileAlone == Loaded(config_file) @@ CrawlerDefaults

\* C30: the command line value for output directory, depth, concurrency cap,
\* timeout or delay replaces the configuration file's value whenever the
\* option was given on the command line, also when given with its default
\* value, and never when it was not given.
C30_ExplicitOptionOverrides ==
  Configured =>
    \A o \in Options :
      EffectiveConfig[ConfigKey(o)] =
        IF o \in DOMAIN cmdline.given THEN cmdline.given[o]
        ELSE FileAlone[ConfigKey(o)]

\* ------------------------------------------------------- APIClient: claims
IsServerError(status) == status >= 500 /\ status < 600

EventsOf(kind) == {k \in DOMAIN api_events : api_events[k].kind = kind}

\* C31: _send_request sends at most max_retries requests; it returns True
\* only after a 2xx response; a 4xx response ends the call at once with the
\* client error; a 5xx response to the last attempt ends it with the server
\* error; and every retry is preceded by a sleep of 2^attempt seconds,
\* after a transport failure and after a 5xx response alike.
C31_RetriesWithBackoff ==
  /\ Cardinality(EventsOf("request")) <= max_retries
  /\ api_outcome = "True" =>
       /\ api_events # <<>>
       /\ api_events[Len(api_events)].kind = "response"
       /\ IsSuccess(api_events[Len(api_events)].what)
  /\ \A k \in EventsOf("response") :
       /\ IsClientError(api_events[k].what) =>
            /\ k = Len(api_events)
            /\ api_pc = "raised" /\ api_outcome = "Client error"
       /\ (IsServerError(api_events[k].what)
             /\ api_events[k].attempt = max_retries - 1) =>
            api_pc = "raised" /\ api_outcome = "Server error"
  /\ \A k \in EventsOf("request") :
       api_events[k].attempt > 0 =>
         api_events[k - 1] =
           ApiEvent("sleep", api_events[k].attempt - 1,
                    Pow2(api_events[k].attempt - 1))

\* The same with the sleep left out of the retries that follow a response.
C31_BackoffAfterTransportFailure ==
  /\ Cardinality(EventsOf("request")) <= max_retries
  /\ \A k \in EventsOf("request") :
       (api_events[k].attempt > 0 /\ api_events[k - 1].kind # "response") =>
         api_events[k - 1] =
           ApiEvent("sleep", api_events[k].attempt - 1,
                    Pow2(api_events[k].attempt - 1))

\* ------------------------------- LinkDetector on a fixed site: claims
\* The URL whose page the loop is about to fetch fails to be fetched.
FetchFails ==
  /\ crawl = "crawling" /\ urls_to_visit # <<>>
  /\ ~Skips(Head(urls_to_visit)[1], Head(urls_to_visit)[2])
  /\ Head(urls_to_visit)[1] \in DOMAIN site
  /\ site[Head(urls_to_visit)[1]].kind = "unreachable"

\* C32: a page fetch that fails raises nothing and counts as a page without
\* links: the URL is put in the visited set, the call goes on with the rest
\* of the list of URLs to visit, and the file links gathered so far are
\* kept. No visited URL leaves the visited set and none is fetched again.
C32_FailedFetchIsNoLinks ==
  [][/\ FetchFails =>
          /\ crawl' = "crawling"
          /\ visited_urls' = visited_urls \cup {Head(urls_to_visit)[1]}
          /\ urls_to_visit' = Tail(urls_to_visit)
          /\ all_file_links' = all_file_links
     /\ crawl = "crawling" => visited_urls \subseteq visited_urls'
     /\ fetch_log' # fetch_log =>
          Head(urls_to_visit)[1] \notin visited_urls]_vars

\* The fetch of page2 failed after page3 was fetched and a.pdf found on it;
\* page2, in the list once more, was not fetched again, and the call
\* returned a.pdf.
C32_Witness ==
  /\ crawl = "returned"
  /\ site[Page2].kind = "unreachable"
  /\ fetch_log = << <<SeedUrl, 0>>, <<Page3, 1>>, <<Page2, 1>> >>
  /\ served[Page3] = {Page2, PdfA}
  /\ Page2 \in visited_urls
  /\ "documents" \in DOMAIN all_file_links
  /\ PdfA \in Range(all_file_links["documents"])

\* The links of the served pages whose HEAD probe fails and whose path ends
\* with no extension that is_file_link looks for.
ProbeFailed ==
  {l \in UNION {served[p] : p \in DOMAIN served} :
     /\ HeadProbe(l) = "fails"
     /\ ~ExtensionHit(all_extensions, l, custom_extensions)}

\* C33: a failure of the HEAD probe stays inside is_file_link: the link is
\* not a file link and is in no category of the result, and the call never
\* ends by raising on a page of the site that was fetched and whose links
\* were extracted.
C33_ProbeFailureSwallowed ==
  /\ \A l \in ProbeFailed :
       /\ ~is_file_link(l, custom_extensions)
       /\ \A t \in DOMAIN all_file_links : l \notin Range(all_file_links[t])
  /\ (crawl = "raised" /\ fetch_log[Len(fetch_log)][1] \in DOMAIN site) =>
       site[fetch_log[Len(fetch_log)][1]].kind = "raises"

\* A page with a link whose probe fails was fetched, another page was
\* fetched after it, and the call returned.
C33_Witness ==
  /\ crawl = "returned"
  /\ Odd \in ProbeFailed
  /\ \E j \in DOMAIN fetch_log :
       /\ j < Len(fetch_log)
       /\ fetch_log[j][1] \in DOMAIN served
       /\ Odd \in served[fetch_log[j][1]]
       /\ fetch_log[j + 1][1] \in DOMAIN served

\* ------------------------------------------- LinkDetector: claims, the rest
FixedCategories == DOMAIN FILE_EXTENSIONS

ListedIn(l, t) == t \in DOMAIN all_file_links /\ l \in Range(all_file_links[t])

ServedLinks == UNION {served[p] : p \in DOMAIN served}

\* C39, the categories: a URL listed under a fixed category has a path that
\* ends with one of the category's extensions and is listed under no other
\* fixed category.
C39_ListedByExtension ==
  \A t \in DOMAIN all_file_links \cap FixedCategories :
    \A l \in Range(all_file_links[t]) :
      /\ \E ext \in FILE_EXTENSIONS[t] : PathEndsWith(l, ext)
      /\ \A o \in FixedCategories \ {t} : ~ListedIn(l, o)

\* C39: in the returned FileLinkSet a URL listed under a fixed category has
\* a path that ends with one of the category's extensions and is listed
\* under no other fixed category, and every link of a crawled page that
\* is_file_link accepts is listed under at least one category.
C39_PartitionOfAccepted ==
  /\ C39_ListedByExtension
  /\ crawl = "returned" =>
       \A l \in ServedLinks :
         is_file_link(l, custom_extensions) =>
           \E t \in DOMAIN all_file_links : ListedIn(l, t)

\* The links of a page of the site that the traversal follows,
\* link_detector.py:264-266; a page that could not be fetched has none.
FollowedFrom(p) ==
  IF p \in DOMAIN site /\ site[p].kind = "page"
  THEN {l \in site[p].links : ~is_file_link(l, {}) /\ _is_same_domain(seed, l)}
  ELSE {}

\* The URLs within k followed links of the seed.
RECURSIVE Within(_)
Within(k) ==
  IF k = 0 THEN {seed}
  ELSE LET nearer == Within(k - 1)
       IN nearer \cup UNION {FollowedFrom(p) : p \in nearer}

Distance(u) ==
  CHOOSE k \in 0..max_depth : u \in Within(k) /\ (k = 0 \/ u \notin Within(k - 1))

\* C40: the pages are fetched in the order of their depth, none twice, each
\* at its least number of links from the seed; when the call returns, the
\* pages fetched are all those within max_depth links of the seed over
\* fetched pages of the seed's domain that are not file links.
C40_BreadthFirstComplete ==
  /\ \A j, k \in DOMAIN fetch_log :
       /\ j < k => fetch_log[j][2] <= fetch_log[k][2]
       /\ j # k => fetch_log[j][1] # fetch_log[k][1]
  /\ LET reachable == Within(max_depth)
     IN /\ \A j \in DOMAIN fetch_log :
             /\ fetch_log[j][1] \in reachable
             /\ fetch_log[j][2] = Distance(fetch_log[j][1])
        /\ crawl = "returned" => Fetched = reachable

\* page3 is linked from the seed and from page2; the call has returned
\* having fetched it once, at depth 1.
C40_Witness ==
  /\ crawl = "returned"
  /\ max_depth = 2
  /\ site[SeedUrl].kind = "page" /\ site[SeedUrl].links = {Page2, Page3}
  /\ site[Page2].kind = "page" /\ Page3 \in site[Page2].links
  /\ fetch_log = << <<SeedUrl, 0>>, <<Page2, 1>>, <<Page3, 1>> >>

---------------------------------------------------------------------------
\* FileDownloader: a further download_files call on the same instance

\* files handled by the calls made so far on this instance
Handled == stats.successful_downloads + stats.failed_downloads

\* file_downloader.py:300-325 on an instance that has returned from a call:
\* the constructor (51-59) is the only place that zeroes the counters;
\* line 304 overwrites total_files; the semaphore, the tasks and the list of
\* results are new objects of the call; the directory is the same.
BeginAgain(us) ==
  /\ phase = "returned" /\ mode = "async"
  /\ Handled + Len(us) <= MaxLoad
  /\ urls' = us
  /\ co' = [i \in DOMAIN us |-> NoLocals("pending", InitialResult(us[i]))]
  /\ stats' = [stats EXCEPT !.total_files = Len(us)]
  /\ attempts' = [i \in DOMAIN us |-> 0]
  /\ sleeps' = [i \in DOMAIN us |-> <<>>]
  /\ transportOnly' = [i \in DOMAIN us |-> TRUE]
  /\ timeoutOnly' = [i \in DOMAIN us |-> TRUE]
  /\ semaphore' = max_concurrent
  /\ completed' = {}
  /\ results' = None
  /\ phase' = "running"
  /\ UNCHANGED <<max_concurrent, retry_count, mode, fs, ldvars, wcvars, eqvars, mnvars, ifvars, apvars>>

DownloadFilesAgain ==
  \E us \in UrlLists(MaxLoad \div (retry_count + 1)) : BeginAgain(us)

NextAgain ==
  \/ DownloadFilesBegin
  \/ \E i \in Tasks : Acquire(i)
  \/ \E i \in Tasks : HeadReturns(i)
  \/ \E i \in Tasks : GetReturns(i)
  \/ \E i \in Tasks : OpenReturns(i)
  \/ \E i \in Tasks : ChunkWritten(i)
  \/ \E i \in Tasks : StreamFails(i)
  \/ \E i \in Tasks : StreamEnds(i)
  \/ \E i \in Tasks : Wake(i)
  \/ DownloadFilesEnd
  \/ DownloadFilesAgain

SpecAgain == Init /\ [][NextAgain]_vars

\* C35: after every completed download_files call, a second or later call on
\* the same instance included, successful_downloads + failed_downloads equals
\* total_files.
C35_CountersDescribeTheCall ==
  (Async /\ phase = "returned") =>
    stats.successful_downloads + stats.failed_downloads = stats.total_files

\* the counters of an instance are the sums over all its calls: they are at
\* least the number of files of the last call and never decrease
C35_CountersAccumulate ==
  [][ /\ stats'.successful_downloads >= stats.successful_downloads
      /\ stats'.failed_downloads >= stats.failed_downloads
      /\ (phase' = "returned" => Handled' >= stats'.total_files) ]_vars

---------------------------------------------------------------------------
\* WebCrawler: a further crawl_and_download run on the same instance

\* seeds the runs made so far on this instance have gone through
SeedsHandled == crawl_stats.urls_crawled + Len(crawl_stats.errors)

\* web_crawler.py:99-131 on a crawler that has returned from a run:
\* crawl_stats and metadata are assigned in __init__ only (67-84), so the
\* run starts with what the earlier run left in them; all_file_links is a
\* local of the call (131).
CrawlAndDownloadAgain ==
  /\ wc_pc = "returned" /\ wc_mode = "crawl_and_download"
  /\ \E us \in SeedLists, ft \in ArgFileTypes, ce \in ArgCustom,
        od \in ArgOutputDir :
       /\ SeedsHandled + Len(us) <= MaxSeeds
       /\ CrawlAndDownloadCalled(us, ft, ce, od)
  /\ UNCHANGED first_found

NextWCAgain ==
  \/ CrawlAndDownloadBegin
  \/ CallFindFileLinks
  \/ VisitFails
  \/ VisitPage
  \/ VisitRaises
  \/ FindFileLinksEnd
  \/ FindFileLinksReturns
  \/ FindFileLinksRaises
  \/ DedupeLinks
  \/ DownloadFiles
  \/ SaveMetadata
  \/ PrintSummary
  \/ CrawlAndDownloadAgain

SpecWCAgain == InitWC /\ [][NextWCAgain]_vars

RunReturned == wc_pc = "returned" /\ wc_mode = "crawl_and_download"

Successes(rs) == {k \in DOMAIN rs : rs[k].success}

\* the outcomes reported are those of this run's downloads, one per link
\* found (none when no link was found), and files_downloaded counts the
\* successes among them
DownloadsOfThisRun ==
  /\ {download_results[k].url : k \in DOMAIN download_results}
       = AllLinks(found_links)
  /\ Len(download_results) = Cardinality(AllLinks(found_links))
  /\ crawl_stats.files_downloaded = Cardinality(Successes(download_results))

\* every recorded error is the failure of one seed of this run
ErrorsOfThisRun == Len(crawl_stats.errors) <= Len(seeds)

\* C36: the report of a crawl_and_download run describes that run only, also
\* on a crawler used before: download_results are the outcomes of the
\* downloads of this run (empty when no file link was found), and
\* files_downloaded and errors count this run only.
C36_ReportOfThisRun ==
  RunReturned => DownloadsOfThisRun /\ ErrorsOfThisRun

\* the two halves, each on its own
C36_DownloadsOnly == RunReturned => DownloadsOfThisRun
C36_ErrorsOnly == RunReturned => ErrorsOfThisRun

---------------------------------------------------------------------------
\* FileDownloader: download_files under a fair event loop

\* file_downloader.py:300-325: download_files has been called on a new
\* instance: the semaphore is created with max_concurrent permits and one
\* download_with_semaphore task per URL waits for it.
InitDLFair ==
  /\ max_concurrent \in 1..MaxConcurrent
  /\ retry_count \in 0..(MaxLoad - 1)
  /\ phase = "running"
  /\ mode = "async"
  /\ urls \in UrlLists(MaxLoad \div (retry_count + 1))
  /\ semaphore = max_concurrent
  /\ co = [i \in DOMAIN urls |-> NoLocals("pending", InitialResult(urls[i]))]
  /\ stats = [total_files |-> Len(urls), successful_downloads |-> 0,
              failed_downloads |-> 0, total_size |-> 0]
  /\ fs = <<>>
  /\ completed = {}
  /\ results = None
  /\ attempts = [i \in DOMAIN urls |-> 0]
  /\ sleeps = [i \in DOMAIN urls |-> <<>>]
  /\ transportOnly = [i \in DOMAIN urls |-> TRUE]
  /\ timeoutOnly = [i \in DOMAIN urls |-> TRUE]
  /\ DetectorIdle /\ CrawlerIdle /\ ScriptIdle
  /\ MainIdle /\ ClassifierIdle /\ ApiIdle

\* one step of the event loop: a waiting task gets the semaphore, a network
\* or file operation of some task returns or fails, a sleep ends, or gather
\* returns
DownloadStep ==
  \/ \E i \in Tasks : Acquire(i)
  \/ \E i \in Tasks : HeadReturns(i)
  \/ \E i \in Tasks : GetReturns(i)
  \/ \E i \in Tasks : OpenReturns(i)
  \/ \E i \in Tasks : ChunkWritten(i)
  \/ \E i \in Tasks : StreamFails(i)
  \/ \E i \in Tasks : StreamEnds(i)
  \/ \E i \in Tasks : Wake(i)
  \/ DownloadFilesEnd

\* Every awaited operation returns or times out (aiohttp.ClientTimeout,
\* file_downloader.py:315, 237) and the event loop runs every task that is
\* ready: a step that stays possible is taken.
SpecDLFair ==
  InitDLFair /\ [][DownloadStep]_vars /\ WF_<<phase, co>>(DownloadStep)

\* every task has got the semaphore and started download_file
AllAcquired == \A i \in DOMAIN co : attempts[i] >= 1

\* C37: for every URL list and every cap of at least one, download_files
\* eventually returns: by then every task has acquired the semaphore (none
\* waited forever) and every permit has been given back.
C37_DownloadFilesReturns ==
  <>(phase = "returned" /\ AllAcquired /\ semaphore = max_concurrent)

\* two downloads under a cap of one have both run and the call has returned
C37_Witness ==
  /\ phase = "returned" /\ max_concurrent = 1
  /\ Len(urls) = 2
  /\ \A i \in DOMAIN co : co[i].pc = "done" /\ attempts[i] >= 1
  /\ semaphore = max_concurrent

---------------------------------------------------------------------------
\* FileDownloader, sequential variant: claims

Sync == mode = "sync"

\* C34: in download_files_sync every write goes to a path that was not in the
\* directory when it was chosen: no step changes or removes a file that is
\* already there (neither the partial file of an earlier attempt nor the
\* file of an earlier download), and the successful outcomes of the call have
\* pairwise distinct paths.
C34_SyncWritesFreshPaths ==
  [][ Sync =>
        /\ \A p \in DOMAIN fs : p \in DOMAIN fs' /\ fs'[p] = fs[p]
        /\ \A i, j \in DOMAIN co' :
             ( /\ i # j
               /\ co'[i].pc = "done" /\ co'[j].pc = "done"
               /\ co'[i].result.success /\ co'[j].result.success )
             => co'[i].result.file_path # co'[j].result.file_path ]_vars

\* a sequential call whose first attempt left a partial file and whose retry
\* succeeded under the next free name
C34_Witness ==
  /\ Sync /\ phase = "returned"
  /\ Len(urls) = 1 /\ attempts[1] = 2
  /\ co[1].result.success
  /\ Cardinality(DOMAIN fs) = 2
  /\ co[1].result.file_path \in DOMAIN fs
  /\ co[1].result.file_path # PathOf(get_filename_from_url(urls[1], NoDisposition))

---------------------------------------------------------------------------
\* FileDownloader: claims about the retry loop as a whole

DoneOk(i) == co[i].pc = "done" /\ co[i].result.success
DoneFailed(i) == co[i].pc = "done" /\ ~co[i].result.success

\* C38: download_file and _download_file_sync make at most retry_count + 1
\* attempts; once an attempt has succeeded nothing more is done for that URL
\* (no attempt, no sleep, its outcome stays); every backoff sleep comes after
\* an attempt that is not the last; and each finished download has counted
\* exactly once, in successful_downloads or in failed_downloads.
C38_AtMostOnceEach ==
  [][ /\ \A i \in DOMAIN co' :
           /\ attempts'[i] <= retry_count' + 1
           /\ \A n \in DOMAIN sleeps'[i] : sleeps'[i][n].after < retry_count'
           /\ co'[i].pc = "done" =>
                \A n \in DOMAIN sleeps'[i] :
                  sleeps'[i][n].after + 1 < attempts'[i]
      /\ \A i \in DOMAIN co :
           DoneOk(i) => /\ co'[i] = co[i]
                        /\ attempts'[i] = attempts[i]
                        /\ sleeps'[i] = sleeps[i]
      /\ stats'.successful_downloads
           = Cardinality({i \in DOMAIN co' : DoneOk(i)'})
      /\ stats'.failed_downloads
           = Cardinality({i \in DOMAIN co' : DoneFailed(i)'}) ]_vars

\* a call with a retry to spare has returned: the first attempt of its
\* download succeeded and was the only one, counted once
C38_Witness ==
  /\ phase = "returned" /\ retry_count = 1
  /\ Len(urls) = 1 /\ DoneOk(1)
  /\ attempts[1] = 1 /\ sleeps[1] = <<>>
  /\ stats.successful_downloads = 1 /\ stats.failed_downloads = 0

====
